---- MODULE Spec2Model ----
(***************************************************************************)
(* Trade cache and fill matching of bybit_trade_analyzer.                   *)
(*                                                                         *)
(*   cache_manager.py               CacheManager: trades table, cache      *)
(*                                  ranges table, gap computation          *)
(*   exchanges/bybit_exchange.py    chunked fetch of closed trades         *)
(*   exchanges/hyperliquid_exchange.py  chunked fetch of fills and the     *)
(*                                  FIFO matching of fills into trades     *)
(*   api_routes.py                  fetch_all_completed_trades_for_period  *)
(*                                                                         *)
(* Numbers.  Sizes, prices and fees are floats in the code; they are       *)
(* integers here.  Fees are multiples of FeeScale, so that every           *)
(* proportional share the matcher computes (fee * close_size / size) is    *)
(* an exact integer.  Timestamps are integers; where the code keeps a      *)
(* timestamp as text (str(timestamp), the String columns of the tables)    *)
(* the model keeps its decimal digits, see Str and ToInt.                  *)
(***************************************************************************)
EXTENDS Integers, Sequences, FiniteSets, Bags, TLC

VARIABLES
    \* _process_raw_trades, one symbol's pass
    open_positions,     \* {'long': [...], 'short': [...]}: the open lots, oldest first
    formatted_trades,   \* the completed trades emitted so far
    prev_positions,     \* open_positions as it was before the last fill
    last_fill,          \* the last fill processed (NoFill before the first)
    emitted,            \* the completed trades the last fill appended
    n_fills,            \* number of fills processed
    aborted,            \* TRUE once a fill raised out of _process_raw_trades
    \* CacheManager
    trades_table,       \* the rows of table 'trades', a bag
    cache_ranges_table, \* the rows of table 'cache_ranges', a bag
    upserted,           \* history: the (symbol, updatedTime) keys given to cache_trades
    last_batch,         \* history: the list given to the last cache_trades call
    rows_before,        \* history: the number of rows before that call
    \* one call of get_uncached_ranges
    gap_cached,         \* its cached_range argument
    gap_start,          \* its start_time argument
    gap_end,            \* its end_time argument
    uncached_ranges,    \* the list it returned
    gap_returned,       \* whether it has returned
    \* fetch_all_completed_trades_for_period
    cache_available,    \* is_cache_available(): the engine was created
    call,               \* history: the arguments of the last fetch and what it found
    requests,           \* history: the upstream chunk requests of the last fetch
    api_trades,         \* history: the trades fetch_completed_trades returned to it
    all_trades,         \* history: the list the last fetch returned
    covered,            \* history: per scope, the timestamps of its successful requests
    erased,             \* history: the database was erased and no fetch made since
    n_fetches,          \* history: the number of fetches made
    \* concurrent database transactions
    txn,                \* per connection, the transaction it has open
    \* one call of get_cached_trades
    query,              \* its arguments and the list it returned
    \* one call of process_trade
    processed_trade,    \* the exchange, the trade given and the roi it was left with
    \* the matching pass, for the totals of a whole pass
    tally,              \* history: the lots opened and the fees of the fills matched
    \* one call of cache_trades on a batch that may hold malformed trades
    cache_call          \* history: the exception raised inside it and whether it got out

matcher_vars == <<open_positions, formatted_trades, prev_positions, last_fill,
                  emitted, n_fills, aborted>>

cache_vars == <<trades_table, cache_ranges_table, upserted, last_batch, rows_before>>

gap_vars == <<gap_cached, gap_start, gap_end, uncached_ranges, gap_returned>>

fetch_vars == <<cache_available, call, requests, api_trades, all_trades, covered,
                erased, n_fetches>>

txn_vars == <<txn>>

pure_vars == <<query, processed_trade, tally, cache_call>>

vars == <<matcher_vars, cache_vars, gap_vars, fetch_vars, txn_vars, pure_vars>>

----------------------------------------------------------------------------
(* Bounds *)

\* Number of fills in one symbol's pass.
MaxFills == 3

\* Largest fill size (fill sizes are 1..MaxSize).
MaxSize == 2

\* Timestamps are 9..MaxTime; the range holds one-digit and two-digit
\* numbers, whose texts order differently from their values.
MaxTime == 13

\* Largest number of trades in one cache_trades call.
MaxBatch == 2

\* Number of fetches in a behaviour that logs its fetches.
MaxFetches == 2

\* A single fetch_completed_trades call is given periods of up to
\* MaxWindow + 1 timestamps.
MaxWindow == 6

----------------------------------------------------------------------------
(* Arithmetic helpers *)

Min(a, b) == IF a <= b THEN a ELSE b

Max(a, b) == IF a >= b THEN a ELSE b

RECURSIVE Gcd(_, _)
Gcd(a, b) == IF b = 0 THEN a ELSE Gcd(b, a % b)

RECURSIVE LcmUpTo(_)
LcmUpTo(n) == IF n <= 1 THEN 1 ELSE (LcmUpTo(n - 1) * n) \div Gcd(LcmUpTo(n - 1), n)

\* Unit of fee amounts: every share fee * a / b with b <= MaxSize of a share
\* of a fee is an integer.
FeeScale == LcmUpTo(MaxSize) * LcmUpTo(MaxSize)

\* str(n) of a non-negative int: its decimal digits, most significant first.
RECURSIVE Str(_)
Str(n) == IF n < 10 THEN <<n>> ELSE Str(n \div 10) \o <<n % 10>>

\* int(s) of a decimal text.
RECURSIVE ToInt(_)
ToInt(s) == IF Len(s) = 1 THEN s[1]
            ELSE 10 * ToInt(SubSeq(s, 1, Len(s) - 1)) + s[Len(s)]

----------------------------------------------------------------------------
(* Fill matching: HyperliquidExchange._process_raw_trades *)

Sides == {"long", "short"}

Directions == {"Open Long", "Open Short", "Close Long", "Close Short",
               "Short > Long", "Long > Short"}

\* The symbol of the pass and its name after ":USDC" is removed.
RawSymbol == "ETH/USDC:USDC"

CleanSymbol(s) == IF s = "ETH/USDC:USDC" THEN "ETH/USDC" ELSE s

\* (price, fee) pairs a fill may carry.
Quotes == {<<1, FeeScale>>, <<2, 2 * FeeScale>>}

\* The fills that may arrive with timestamp t: info.dir, info.sz, info.px,
\* info.fee, info.time.
FillsAt(t) ==
    {[dir |-> d, sz |-> s, px |-> q[1], fee |-> q[2], time |-> t] :
        d \in Directions, s \in 1..MaxSize, q \in Quotes}

OpenDir(side) == IF side = "long" THEN "Open Long" ELSE "Open Short"

CloseDir(side) == IF side = "long" THEN "Close Long" ELSE "Close Short"

\* The flip that closes `side` lots.
FlipDir(side) == IF side = "long" THEN "Long > Short" ELSE "Short > Long"

NoFill == [dir |-> "none"]

EmptyPositions == [long |-> <<>>, short |-> <<>>]

\* The lot an opening fill appends.
OpenLot(size, price, timestamp, fee, trade) ==
    [size |-> size, price |-> price, timestamp |-> timestamp, fee |-> fee,
     trade |-> trade]

\* Mutant of CalculatedPnl: the long formula on both sides.
CalculatedPnlLongOnly(side, entry, exit, size) == (exit - entry) * size

\* (exit - entry) * size for a long, (entry - exit) * size for a short.
CalculatedPnl(side, entry, exit, size) ==
    IF side = "long" THEN (exit - entry) * size ELSE (entry - exit) * size

\* The completed trade of closing `size` of lot `open_position` at `price`.
CompletedTrade(side, open_position, price, size, total_fee, timestamp, trade) ==
    [symbol        |-> CleanSymbol(RawSymbol),
     side          |-> IF side = "long" THEN "Sell" ELSE "Buy",
     position_type |-> side,
     avgEntryPrice |-> open_position.price,
     avgExitPrice  |-> price,
     qty           |-> size,
     closedPnl     |-> CalculatedPnl(side, open_position.price, price, size) - total_fee,
     fee           |-> total_fee,
     updatedTime   |-> Str(timestamp),
     entryTime     |-> Str(open_position.timestamp),
     duration      |-> timestamp - open_position.timestamp,
     raw_data      |-> [open |-> open_position.trade, close |-> trade]]

\* Mutant of ConsumeRemaining: the further lots are left as they are.
ConsumeRemainingNothing(queue, remaining) == queue

\* The while loop of a simple close after the oldest lot is popped: further
\* lots are popped or reduced until `remaining` is used up.
RECURSIVE ConsumeRemaining(_, _)
ConsumeRemaining(queue, remaining) ==
    IF remaining > 0 /\ queue # <<>>
    THEN IF remaining >= Head(queue).size
         THEN ConsumeRemaining(Tail(queue), remaining - Head(queue).size)
         ELSE <<[Head(queue) EXCEPT !.size = @ - remaining]>> \o Tail(queue)
    ELSE queue

\* Mutant of CloseQueue: the oldest lot is popped only when the close is
\* larger than it, so a close of exactly its size leaves it with size 0.
CloseQueueKeepsEmptied(queue, size) ==
    IF size > Head(queue).size
    THEN ConsumeRemaining(Tail(queue), size - Head(queue).size)
    ELSE <<[Head(queue) EXCEPT !.size = @ - size]>> \o Tail(queue)

\* Mutant of CloseQueue: the oldest lot is popped on a partial close too.
CloseQueuePopsPartial(queue, size) ==
    ConsumeRemaining(Tail(queue), size - Head(queue).size)

\* The queue after a simple close of `size` against a non-empty queue.
CloseQueue(queue, size) ==
    IF size >= Head(queue).size
    THEN ConsumeRemaining(Tail(queue), size - Head(queue).size)
    ELSE <<[Head(queue) EXCEPT !.size = @ - size]>> \o Tail(queue)

\* Mutant of UnmatchedClose: a trade is made up from the close fill alone.
UnmatchedCloseFabricates(positions, side, f) ==
    [positions |-> positions,
     trades |-> <<CompletedTrade(side, OpenLot(f.sz, f.px, f.time, 0, f), f.px,
                                 f.sz, f.fee, f.time, f)>>,
     raised |-> FALSE]

\* A close fill that finds its queue empty: a warning is printed.
UnmatchedClose(positions, side, f) ==
    [positions |-> positions, trades |-> <<>>, raised |-> FALSE]

\* A close fill against a non-empty queue: one trade priced at the oldest lot.
MatchedClose(positions, side, f) ==
    LET open_position == Head(positions[side])
        total_fee == f.fee + open_position.fee
    IN [positions |-> [positions EXCEPT ![side] = CloseQueue(@, f.sz)],
        trades |-> <<CompletedTrade(side, open_position, f.px, f.sz,
                                    total_fee, f.time, f)>>,
        raised |-> FALSE]

\* 'Close Long' / 'Close Short'.
CloseBranch(positions, side, f) ==
    IF positions[side] = <<>>
    THEN UnmatchedClose(positions, side, f)
    ELSE MatchedClose(positions, side, f)

\* Mutant of ProportionalFee: the whole fee, whatever the share.
FullFee(fee, part, whole) == fee

\* The share part / whole of a fee: fee * (part / whole).
ProportionalFee(fee, part, whole) == (fee * part) \div whole

\* Mutant of FlipWalk: only the first lot closed gets a trade.
RECURSIVE FlipWalkOneTrade(_, _, _, _, _, _)
FlipWalkOneTrade(queue, side, f, remaining_size, closed_size, trades) ==
    IF remaining_size > 0 /\ queue # <<>>
    THEN LET open_position == Head(queue)
             close_size == Min(open_position.size, remaining_size)
         IN IF open_position.size = 0
            THEN [queue |-> queue, trades |-> trades,
                  closed |-> closed_size + close_size, raised |-> TRUE]
            ELSE LET total_fee == ProportionalFee(f.fee, close_size, f.sz)
                                  + ProportionalFee(open_position.fee, close_size,
                                                    open_position.size)
                     t == CompletedTrade(side, open_position, f.px, close_size,
                                         total_fee, f.time, f)
                     kept == IF trades = <<>> THEN <<t>> ELSE trades
                 IN IF close_size >= open_position.size
                    THEN FlipWalkOneTrade(Tail(queue), side, f,
                                          remaining_size - open_position.size,
                                          closed_size + close_size, kept)
                    ELSE FlipWalkOneTrade(<<[open_position EXCEPT !.size = @ - close_size]>>
                                              \o Tail(queue),
                                          side, f, 0, closed_size + close_size, kept)
    ELSE [queue |-> queue, trades |-> trades, closed |-> closed_size, raised |-> FALSE]

\* The while loop of a flip over the queue being closed.  Returns the queue
\* left, the trades emitted, the size closed, and whether a division by a
\* zero lot size raised.
RECURSIVE FlipWalk(_, _, _, _, _, _)
FlipWalk(queue, side, f, remaining_size, closed_size, trades) ==
    IF remaining_size > 0 /\ queue # <<>>
    THEN LET open_position == Head(queue)
             close_size == Min(open_position.size, remaining_size)
         IN IF open_position.size = 0
            THEN [queue |-> queue, trades |-> trades,
                  closed |-> closed_size + close_size, raised |-> TRUE]
            ELSE LET position_fee == ProportionalFee(open_position.fee, close_size,
                                                     open_position.size)
                     close_fee == ProportionalFee(f.fee, close_size, f.sz)
                     total_fee == close_fee + position_fee
                     t == CompletedTrade(side, open_position, f.px, close_size,
                                         total_fee, f.time, f)
                 IN IF close_size >= open_position.size
                    THEN FlipWalk(Tail(queue), side, f,
                                  remaining_size - open_position.size,
                                  closed_size + close_size, Append(trades, t))
                    ELSE FlipWalk(<<[open_position EXCEPT !.size = @ - close_size]>>
                                      \o Tail(queue),
                                  side, f, 0, closed_size + close_size,
                                  Append(trades, t))
    ELSE [queue |-> queue, trades |-> trades, closed |-> closed_size, raised |-> FALSE]

Opposite(side) == IF side = "long" THEN "short" ELSE "long"

\* Mutant of FlipBranch: a lot of the new direction is opened whether or not
\* the closed queue was used up.
FlipBranchAlwaysOpens(positions, closing, f) ==
    LET w == FlipWalk(positions[closing], closing, f, f.sz, 0, <<>>)
        opened == <<OpenLot(Max(f.sz - w.closed, 1), f.px, f.time, f.fee, f)>>
    IN IF w.raised
       THEN [positions |-> positions, trades |-> <<>>, raised |-> TRUE]
       ELSE [positions |-> [positions EXCEPT ![closing] = w.queue,
                                             ![Opposite(closing)] = @ \o opened],
             trades |-> w.trades, raised |-> FALSE]

\* 'Short > Long' (closing = "short") / 'Long > Short' (closing = "long").
FlipBranch(positions, closing, f) ==
    LET w == FlipWalk(positions[closing], closing, f, f.sz, 0, <<>>)
        new_size == f.sz - w.closed
        opened == IF new_size > 0
                  THEN <<OpenLot(new_size, f.px, f.time,
                                 ProportionalFee(f.fee, new_size, f.sz), f)>>
                  ELSE <<>>
    IN IF w.raised
       THEN [positions |-> positions, trades |-> <<>>, raised |-> TRUE]
       ELSE [positions |-> [positions EXCEPT ![closing] = w.queue,
                                             ![Opposite(closing)] = @ \o opened],
             trades |-> w.trades, raised |-> FALSE]

\* 'Open Long' / 'Open Short'.
OpenBranch(positions, side, f) ==
    [positions |-> [positions EXCEPT
                      ![side] = Append(@, OpenLot(f.sz, f.px, f.time, f.fee, f))],
     trades |-> <<>>, raised |-> FALSE]

\* The body of the loop over one symbol's fills.
ProcessFill(positions, f) ==
    CASE f.dir = "Open Long"    -> OpenBranch(positions, "long", f)
      [] f.dir = "Open Short"   -> OpenBranch(positions, "short", f)
      [] f.dir = "Close Long"   -> CloseBranch(positions, "long", f)
      [] f.dir = "Close Short"  -> CloseBranch(positions, "short", f)
      [] f.dir = "Short > Long" -> FlipBranch(positions, "short", f)
      [] f.dir = "Long > Short" -> FlipBranch(positions, "long", f)
      [] OTHER -> [positions |-> positions, trades |-> <<>>, raised |-> FALSE]


\* _process_raw_trades before the first fill of a symbol.
InitMatcherVars ==
    /\ open_positions = EmptyPositions
    /\ formatted_trades = <<>>
    /\ prev_positions = EmptyPositions
    /\ last_fill = NoFill
    /\ emitted = <<>>
    /\ n_fills = 0
    /\ aborted = FALSE

----------------------------------------------------------------------------
(* CacheManager: tables 'trades' and 'cache_ranges' *)

\* A table is a bag of rows: the id column is left out, and a SELECT without
\* ORDER BY returns the rows in an order the engine chooses.

Times == 9..MaxTime

Symbols == {"BTCUSDT", "ETH/USDC"}

\* Python's None as a symbol: the "all symbols" scope.
None == "None"

\* Python's None where a dictionary or a scalar of the database is expected.
Absent == [absent |-> TRUE]

Scopes == Symbols \cup {None}

\* a <= b for two texts of digits, as a String column orders them.
RECURSIVE TextLeq(_, _)
TextLeq(a, b) ==
    IF a = <<>> THEN TRUE
    ELSE IF b = <<>> THEN FALSE
    ELSE IF Head(a) # Head(b) THEN Head(a) < Head(b)
    ELSE TextLeq(Tail(a), Tail(b))

\* SQL min() / max() of a non-empty set of texts.
TextMin(S) == CHOOSE x \in S : \A y \in S : TextLeq(x, y)

TextMax(S) == CHOOSE x \in S : \A y \in S : TextLeq(y, x)

\* The trades that may be stored: symbol and updatedTime (the other columns
\* are copied from the trade and read by no decision of the cache).
Trades == [symbol : Symbols, updatedTime : {Str(t) : t \in Times}]

\* The lists a cache_trades call may be given: up to MaxBatch trades at the
\* two oldest timestamps, with repetitions.
Batches ==
    UNION {[1..n -> {t \in Trades : ToInt(t.updatedTime) <= 10}] : n \in 1..MaxBatch}

\* The row cache_trades inserts for a trade.
TradeRow(trade) == trade

\* SELECT ... WHERE updatedTime == trade['updatedTime'] AND symbol == trade['symbol'].
Existing(table, trade) ==
    {r \in BagToSet(table) :
        r.updatedTime = trade.updatedTime /\ r.symbol = trade.symbol}

\* Mutant of InsertIfAbsent: the row of the key is replaced by the trade's.
InsertOrReplace(table, trade) ==
    LET kept == [r \in BagToSet(table) \ Existing(table, trade)
                    |-> CopiesIn(r, table)]
    IN kept (+) SetToBag({TradeRow(trade)})

\* Mutant of InsertIfAbsent: the row is inserted without the existence check.
InsertAlways(table, trade) == table (+) SetToBag({TradeRow(trade)})

\* One iteration of the loop of cache_trades.
InsertIfAbsent(table, trade) ==
    IF Existing(table, trade) = {}
    THEN table (+) SetToBag({TradeRow(trade)})
    ELSE table

\* The loop of cache_trades over a batch, inside one transaction.
RECURSIVE CacheTradesLoop(_, _)
CacheTradesLoop(table, trades) ==
    IF trades = <<>> THEN table
    ELSE CacheTradesLoop(InsertIfAbsent(table, Head(trades)), Tail(trades))

\* Mutant of Matching: the bounds are compared with the column as texts.
MatchingAsText(table, symbol, start_time, end_time) ==
    {r \in BagToSet(table) :
        /\ symbol # None => r.symbol = symbol
        /\ start_time # 0 => TextLeq(Str(start_time), r.updatedTime)
        /\ end_time # 0 => TextLeq(r.updatedTime, Str(end_time))}

\* The WHERE clause of update_cache_ranges, get_cached_trades and
\* get_most_recent_fetch_time: symbol equal, cast(updatedTime) in [start, end];
\* an argument that is None or 0 adds no condition.
Matching(table, symbol, start_time, end_time) ==
    {r \in BagToSet(table) :
        /\ symbol # None => r.symbol = symbol
        /\ start_time # 0 => ToInt(r.updatedTime) >= start_time
        /\ end_time # 0 => ToInt(r.updatedTime) <= end_time}

\* The rows of cache_ranges of a scope.
RangeRows(ranges, symbol) == {r \in BagToSet(ranges) : r.symbol = symbol}

\* get_cached_range: what fetchone() may return, turned into a dictionary
\* with int bounds; {Absent} when there is no row.
CachedRanges(ranges, symbol) ==
    IF RangeRows(ranges, symbol) = {} THEN {Absent}
    ELSE {[symbol |-> r.symbol,
           oldest_timestamp |-> ToInt(r.oldest_timestamp),
           newest_timestamp |-> ToInt(r.newest_timestamp)] :
             r \in RangeRows(ranges, symbol)}

\* Mutant of GetCachedRange: the table is read whether or not the cache is
\* available.
GetCachedRangeUnguarded(ranges, symbol, available) == CachedRanges(ranges, symbol)

\* get_cached_range(symbol): None when the cache is not available.
GetCachedRange(ranges, symbol, available) ==
    IF ~available THEN {Absent} ELSE CachedRanges(ranges, symbol)

\* Mutant of WidenedRange: the observed bounds overwrite the stored ones.
OverwrittenRange(existing_range, oldest_timestamp, newest_timestamp) ==
    [symbol |-> existing_range.symbol,
     oldest_timestamp |-> Str(ToInt(oldest_timestamp)),
     newest_timestamp |-> Str(ToInt(newest_timestamp))]

\* update_data of update_cache_ranges: min of the olds, max of the news.
WidenedRange(existing_range, oldest_timestamp, newest_timestamp) ==
    [symbol |-> existing_range.symbol,
     oldest_timestamp |-> Str(Min(ToInt(existing_range.oldest_timestamp),
                                  ToInt(oldest_timestamp))),
     newest_timestamp |-> Str(Max(ToInt(existing_range.newest_timestamp),
                                  ToInt(newest_timestamp)))]

\* The bag with every row r replaced by F[r].
MapBag(B, F) ==
    LET image == {F[r] : r \in BagToSet(B)}
    IN [x \in image |->
          LET pre == {r \in BagToSet(B) : F[r] = x}
              RECURSIVE Sum(_)
              Sum(S) == IF S = {} THEN 0
                        ELSE LET r == CHOOSE r \in S : TRUE
                             IN CopiesIn(r, B) + Sum(S \ {r})
          IN Sum(pre)]

\* min_query and max_query of update_cache_ranges: min() and max() of the
\* updatedTime column over the matching rows; Absent when no row matches.
ObservedBounds(table, symbol, start_time, end_time) ==
    LET found == {r.updatedTime : r \in Matching(table, symbol, start_time, end_time)}
    IN IF found = {} THEN Absent
       ELSE [oldest_timestamp |-> TextMin(found), newest_timestamp |-> TextMax(found)]

\* update_cache_ranges(symbol, start_time, end_time): the cache_ranges table
\* it leaves.
UpdatedRanges(ranges, table, symbol, start_time, end_time) ==
    LET observed == ObservedBounds(table, symbol, start_time, end_time)
    IN IF observed = Absent THEN ranges
       ELSE LET oldest_timestamp == observed.oldest_timestamp
                newest_timestamp == observed.newest_timestamp
            IN IF RangeRows(ranges, symbol) # {}
               THEN MapBag(ranges,
                           [r \in BagToSet(ranges) |->
                              IF r.symbol = symbol
                              THEN WidenedRange(r, oldest_timestamp, newest_timestamp)
                              ELSE r])
               ELSE ranges (+) SetToBag({[symbol |-> symbol,
                                          oldest_timestamp |-> oldest_timestamp,
                                          newest_timestamp |-> newest_timestamp]})

\* Mutant of GetUncachedRanges: the gaps include the cached end points.
GetUncachedRangesInclusive(cached_range, start_time, end_time) ==
    IF cached_range = Absent THEN <<<<start_time, end_time>>>>
    ELSE (IF start_time < cached_range.oldest_timestamp
          THEN <<<<start_time, cached_range.oldest_timestamp>>>> ELSE <<>>)
         \o (IF end_time > cached_range.newest_timestamp
             THEN <<<<cached_range.newest_timestamp, end_time>>>> ELSE <<>>)

\* get_uncached_ranges(cached_range, start_time, end_time).
GetUncachedRanges(cached_range, start_time, end_time) ==
    IF cached_range = Absent THEN <<<<start_time, end_time>>>>
    ELSE LET oldest == cached_range.oldest_timestamp
             newest == cached_range.newest_timestamp
         IN (IF start_time < oldest THEN <<<<start_time, oldest - 1>>>> ELSE <<>>)
            \o (IF end_time > newest THEN <<<<newest + 1, end_time>>>> ELSE <<>>)

InitCacheVars ==
    /\ trades_table = EmptyBag
    /\ cache_ranges_table = EmptyBag
    /\ upserted = {}
    /\ last_batch = <<>>
    /\ rows_before = 0

\* cache_trades(trades): nothing is done when the cache is not available or
\* the list is empty.
CacheTrades(trades) ==
    /\ trades_table' = IF ~cache_available \/ trades = <<>>
                       THEN trades_table
                       ELSE CacheTradesLoop(trades_table, trades)
    /\ upserted' = upserted \cup {trades[i] : i \in 1..Len(trades)}
    /\ last_batch' = trades
    /\ rows_before' = BagCardinality(trades_table)
    /\ UNCHANGED cache_ranges_table

\* update_cache_ranges(symbol, start_time, end_time): nothing is done when
\* the cache is not available.
UpdateCacheRanges(symbol, start_time, end_time) ==
    /\ cache_ranges_table' =
           IF ~cache_available
           THEN cache_ranges_table
           ELSE UpdatedRanges(cache_ranges_table, trades_table, symbol,
                              start_time, end_time)
    /\ UNCHANGED <<trades_table, upserted, last_batch, rows_before>>

InitGapVars ==
    /\ gap_cached = Absent
    /\ gap_start = 0
    /\ gap_end = 0
    /\ uncached_ranges = <<>>
    /\ gap_returned = FALSE

\* The connections of the engine's pool that may hold a transaction at the
\* same time (two requests served at once).
Connections == {1, 2}

\* A connection with no transaction open.
NoTxn == [op |-> "none", pc |-> "idle"]

InitTxnVars == txn = [c \in Connections |-> NoTxn]

\* get_cached_trades not called yet.
NoQuery == [symbol |-> None, start_time |-> 0, end_time |-> 0,
            returned |-> FALSE, trades |-> <<>>]

\* process_trade not called yet.
NoTrade == [exchange |-> None, closedPnl |-> 0, avgEntryPrice |-> 0, qty |-> 0,
            done |-> FALSE, roi |-> [raised |-> FALSE, num |-> 0, den |-> 1]]

\* No lot was opened at a timestamp.
NoLot == [side |-> "none", size |-> 0, fee |-> 0]

\* No fill processed yet.
NoTally == [lots |-> [t \in 1..MaxFills |-> NoLot], fees |-> 0]

\* cache_trades not called yet.
NoCacheCall == [exception |-> "none", propagated |-> FALSE]

InitPureVars ==
    /\ query = NoQuery /\ processed_trade = NoTrade /\ tally = NoTally
    /\ cache_call = NoCacheCall

----------------------------------------------------------------------------
(* The exchanges: upstream data and fetch_completed_trades *)

\* The cache manager's methods are called with one more argument than
\* cache_manager.py declares (the exchange name); it is modelled as having
\* no effect: ranges and rows are scoped by symbol alone, as the bodies of
\* the methods have it.

Exchanges == {"bybit", "hyperliquid"}

\* Width of a chunk request, 7 * 24 * 60 * 60 * 1000 ms in the code, in the
\* time unit of the model: a chunk covers ChunkSpan + 1 timestamps.
ChunkSpan == 1

\* max_requests, 20 in the code, scaled with the time unit.
MaxRequests == 2

\* The closed trades the bybit account has upstream (fewer than the
\* limit of 100 of one request).
BybitHistory == {[symbol |-> "BTCUSDT", updatedTime |-> Str(t)] : t \in {9, 10, 13}}

\* The fills the hyperliquid account has upstream, all of RawSymbol: a long
\* of two units opened at 10 and closed in two halves, at 11 and at 13.
HyperliquidHistory ==
    {[dir |-> "Open Long", sz |-> 2, px |-> 1, fee |-> FeeScale, time |-> 10],
     [dir |-> "Close Long", sz |-> 1, px |-> 2, fee |-> FeeScale, time |-> 11],
     [dir |-> "Close Long", sz |-> 1, px |-> 2, fee |-> FeeScale, time |-> 13]}

\* The symbols a fetch of an exchange is asked for; None is "all symbols".
ExchangeSymbols(exchange) ==
    IF exchange = "bybit" THEN {"BTCUSDT", None} ELSE {RawSymbol, None}

FetchScopes == {"BTCUSDT", RawSymbol, None}

\* The list privateGetV5PositionClosedPnl returns for symbol, startTime and
\* endTime, newest first; a parameter that is None or 0 is not sent.
RECURSIVE NewestFirst(_)
NewestFirst(S) ==
    IF S = {} THEN <<>>
    ELSE LET x == CHOOSE x \in S :
                      \A y \in S : ToInt(y.updatedTime) <= ToInt(x.updatedTime)
         IN <<x>> \o NewestFirst(S \ {x})

BybitResponse(symbol, start_time, end_time) ==
    NewestFirst({t \in BybitHistory :
                    /\ symbol # None => t.symbol = symbol
                    /\ start_time # 0 => ToInt(t.updatedTime) >= start_time
                    /\ end_time # 0 => ToInt(t.updatedTime) <= end_time})

\* The list fetch_my_trades returns for symbol, since and until, oldest
\* first.
RECURSIVE OldestFirst(_)
OldestFirst(S) ==
    IF S = {} THEN <<>>
    ELSE LET x == CHOOSE x \in S : \A y \in S : x.time <= y.time
         IN <<x>> \o OldestFirst(S \ {x})

HyperliquidResponse(symbol, start_time, end_time) ==
    OldestFirst({f \in HyperliquidHistory :
                    /\ symbol # None => symbol = RawSymbol
                    /\ start_time # 0 => f.time >= start_time
                    /\ end_time # 0 => f.time <= end_time})

\* The list fetch_closed_orders returns for the same arguments: the orders
\* behind the fills.  An order has a symbol and a timestamp, and its info
\* has no dir, sz, px, fee or time at the top level: the matcher reads
\* dir '' and zeros.
HyperliquidOrders(symbol, start_time, end_time) ==
    OldestFirst({[dir |-> "", sz |-> 0, px |-> 0, fee |-> 0, time |-> f.time] :
                    f \in {g \in HyperliquidHistory :
                              /\ symbol # None => symbol = RawSymbol
                              /\ start_time # 0 => g.time >= start_time
                              /\ end_time # 0 => g.time <= end_time}})

\* How the upstream answers the request of one chunk.  bybit: "ok" (retCode
\* '0') or "failed" (an exception or any other retCode).  hyperliquid: "ok"
\* (fetch_my_trades returns), "orders" (fetch_my_trades raises and
\* fetch_closed_orders returns) or "failed" (both raise).
Outcomes(exchange) ==
    IF exchange = "bybit" THEN {"ok", "failed"} ELSE {"ok", "orders", "failed"}

\* Mutant of ChunkLoop: the next chunk ends where this one starts.
RECURSIVE ChunkLoopOverlapping(_, _, _, _)
ChunkLoopOverlapping(start_time, current_start, current_end, request_count) ==
    IF current_start >= start_time /\ request_count < MaxRequests
    THEN LET next_end == current_start
             next_start == Max(next_end - ChunkSpan, start_time)
         IN <<<<current_start, current_end>>>>
            \o (IF next_end <= start_time THEN <<>>
                ELSE ChunkLoopOverlapping(start_time, next_start, next_end,
                                          request_count + 1))
    ELSE <<>>

\* The while loop of fetch_completed_trades: the chunk requests it makes,
\* newest first, as (current_start, current_end) pairs.
RECURSIVE ChunkLoop(_, _, _, _)
ChunkLoop(start_time, current_start, current_end, request_count) ==
    IF current_start >= start_time /\ request_count < MaxRequests
    THEN LET next_end == current_start - 1
             next_start == Max(next_end - ChunkSpan, start_time)
         IN <<<<current_start, current_end>>>>
            \o (IF next_end <= start_time THEN <<>>
                ELSE ChunkLoop(start_time, next_start, next_end, request_count + 1))
    ELSE <<>>

ChunkRequests(start_time, end_time) ==
    ChunkLoop(start_time, Max(end_time - ChunkSpan, start_time), end_time, 0)

\* The log entry of an upstream request: the endpoint called, the bounds
\* sent, whether the call returned successfully and how many records it
\* returned.
Request(endpoint, chunk, ok, returned) ==
    [endpoint |-> endpoint, start_time |-> chunk[1], end_time |-> chunk[2],
     ok |-> ok, returned |-> returned]

\* BybitExchange: the loop of fetch_completed_trades over its chunks, with
\* make_api_request inside.  oks[i] is the outcome of the i-th request; a
\* failed request yields [].  Every non-empty list is cached at once.
RECURSIVE BybitLoop(_, _, _, _, _)
BybitLoop(table, symbol, chunks, oks, available) ==
    IF chunks = <<>>
    THEN [table |-> table, all_trades |-> <<>>, requests |-> <<>>]
    ELSE LET chunk == Head(chunks)
             trades_list == IF Head(oks) = "ok"
                            THEN BybitResponse(symbol, chunk[1], chunk[2])
                            ELSE <<>>
             cached == IF trades_list # <<>> /\ available
                       THEN CacheTradesLoop(table, trades_list)
                       ELSE table
             rest == BybitLoop(cached, symbol, Tail(chunks), Tail(oks), available)
         IN [table |-> rest.table,
             all_trades |-> trades_list \o rest.all_trades,
             requests |-> <<Request("privateGetV5PositionClosedPnl", chunk,
                                    Head(oks) = "ok", Len(trades_list))>>
                          \o rest.requests]

\* Mutant of BybitUpdateRanges: update_cache_ranges is called whether or
\* not the loop collected a trade.
BybitUpdateRangesAlways(ranges, symbol, start_time, end_time, loop, available) ==
    [table |-> loop.table,
     ranges |-> IF available
                THEN UpdatedRanges(ranges, loop.table, symbol, start_time, end_time)
                ELSE ranges,
     all_trades |-> loop.all_trades,
     requests |-> loop.requests,
     raised |-> FALSE]

\* The end of BybitExchange.fetch_completed_trades: update_cache_ranges when
\* the loop collected a trade.
BybitUpdateRanges(ranges, symbol, start_time, end_time, loop, available) ==
    [table |-> loop.table,
     ranges |-> IF loop.all_trades # <<>> /\ available
                THEN UpdatedRanges(ranges, loop.table, symbol, start_time, end_time)
                ELSE ranges,
     all_trades |-> loop.all_trades,
     requests |-> loop.requests,
     raised |-> FALSE]

\* BybitExchange.fetch_completed_trades(symbol, start_time, end_time).
BybitFetchCompletedTrades(table, ranges, symbol, start_time, end_time, oks, available) ==
    BybitUpdateRanges(ranges, symbol, start_time, end_time,
                      BybitLoop(table, symbol, ChunkRequests(start_time, end_time),
                                oks, available),
                      available)

\* symbol_trades.sort(key=timestamp): a stable sort, oldest first.
RECURSIVE SortByTimestamp(_)
SortByTimestamp(trades) ==
    IF trades = <<>> THEN <<>>
    ELSE LET n == Len(trades)
             sorted == SortByTimestamp(SubSeq(trades, 1, n - 1))
             f == trades[n]
             k == Cardinality({i \in 1..Len(sorted) : sorted[i].time <= f.time})
         IN SubSeq(sorted, 1, k) \o <<f>> \o SubSeq(sorted, k + 1, Len(sorted))

\* The loop over one symbol's fills; it stops at the fill that raises.
RECURSIVE MatchLoop(_, _)
MatchLoop(positions, symbol_trades) ==
    IF symbol_trades = <<>> THEN [trades |-> <<>>, raised |-> FALSE]
    ELSE LET r == ProcessFill(positions, Head(symbol_trades))
         IN IF r.raised THEN [trades |-> r.trades, raised |-> TRUE]
            ELSE LET rest == MatchLoop(r.positions, Tail(symbol_trades))
                 IN [trades |-> r.trades \o rest.trades, raised |-> rest.raised]

\* _process_raw_trades(raw_trades); the fills are all of one symbol, so
\* there is one group.
ProcessRawTrades(raw_trades) == MatchLoop(EmptyPositions, SortByTimestamp(raw_trades))

\* HyperliquidExchange.make_api_request(symbol, start_time, end_time) with
\* the given outcome: the list it returns and the upstream calls it makes.
\* When fetch_my_trades raises, fetch_closed_orders is called with the same
\* bounds and its list, if it returns one, is returned in place of the fills.
HyperliquidMakeApiRequest(symbol, chunk, outcome) ==
    LET fills == HyperliquidResponse(symbol, chunk[1], chunk[2])
        orders == HyperliquidOrders(symbol, chunk[1], chunk[2])
    IN CASE outcome = "ok" ->
              [trades_list |-> fills,
               requests |-> <<Request("fetch_my_trades", chunk, TRUE, Len(fills))>>]
         [] outcome = "orders" ->
              [trades_list |-> orders,
               requests |-> <<Request("fetch_my_trades", chunk, FALSE, 0),
                              Request("fetch_closed_orders", chunk, TRUE,
                                      Len(orders))>>]
         [] OTHER ->
              [trades_list |-> <<>>,
               requests |-> <<Request("fetch_my_trades", chunk, FALSE, 0),
                              Request("fetch_closed_orders", chunk, FALSE, 0)>>]

\* HyperliquidExchange: the loop of fetch_completed_trades over its chunks.
RECURSIVE HyperliquidLoop(_, _, _)
HyperliquidLoop(symbol, chunks, oks) ==
    IF chunks = <<>> THEN [all_raw_trades |-> <<>>, requests |-> <<>>]
    ELSE LET made == HyperliquidMakeApiRequest(symbol, Head(chunks), Head(oks))
             rest == HyperliquidLoop(symbol, Tail(chunks), Tail(oks))
         IN [all_raw_trades |-> made.trades_list \o rest.all_raw_trades,
             requests |-> made.requests \o rest.requests]

\* The end of HyperliquidExchange.fetch_completed_trades, given what
\* _process_raw_trades returned and the requests made: update_cache_ranges
\* is called before cache_trades, so it reads the trades table as it was
\* before this fetch.  An exception of _process_raw_trades leaves the tables
\* as they were.
HyperliquidCache(table, ranges, symbol, start_time, end_time, processed, issued, available) ==
    IF ~processed.raised /\ processed.trades # <<>> /\ available
    THEN [table |-> CacheTradesLoop(table, processed.trades),
          ranges |-> UpdatedRanges(ranges, table, symbol, start_time, end_time),
          all_trades |-> processed.trades,
          requests |-> issued,
          raised |-> FALSE]
    ELSE [table |-> table,
          ranges |-> ranges,
          all_trades |-> processed.trades,
          requests |-> issued,
          raised |-> processed.raised]

\* `formatted_trades = self._process_raw_trades(all_raw_trades)` and what
\* follows it.
HyperliquidMatch(table, ranges, symbol, start_time, end_time, loop, available) ==
    HyperliquidCache(table, ranges, symbol, start_time, end_time,
                     ProcessRawTrades(loop.all_raw_trades), loop.requests, available)

\* HyperliquidExchange.fetch_completed_trades(symbol, start_time, end_time).
HyperliquidFetchCompletedTrades(table, ranges, symbol, start_time, end_time, oks, available) ==
    HyperliquidMatch(table, ranges, symbol, start_time, end_time,
                     HyperliquidLoop(symbol, ChunkRequests(start_time, end_time), oks),
                     available)

\* exchange.fetch_completed_trades(symbol, start_time, end_time).
FetchCompletedTrades(exchange, table, ranges, symbol, start_time, end_time, oks, available) ==
    IF exchange = "bybit"
    THEN BybitFetchCompletedTrades(table, ranges, symbol, start_time, end_time,
                                   oks, available)
    ELSE HyperliquidFetchCompletedTrades(table, ranges, symbol, start_time, end_time,
                                         oks, available)

----------------------------------------------------------------------------
(* api_routes.py: fetch_all_completed_trades_for_period *)

\* Mutant of RangesToFetch: the cached range is not consulted.
RangesToFetchWhole(cached_range, start_time, end_time) == <<<<start_time, end_time>>>>

\* The ranges fetch_all_completed_trades_for_period fetches from the
\* exchange; cached_range is Absent when the cache was not consulted or
\* holds no range.
RangesToFetch(cached_range, start_time, end_time) ==
    IF cached_range # Absent
    THEN GetUncachedRanges(cached_range, start_time, end_time)
    ELSE <<<<start_time, end_time>>>>

\* The number of chunk requests the fetch of these ranges makes.
RECURSIVE RequestCount(_)
RequestCount(ranges_to_fetch) ==
    IF ranges_to_fetch = <<>> THEN 0
    ELSE Len(ChunkRequests(Head(ranges_to_fetch)[1], Head(ranges_to_fetch)[2]))
         + RequestCount(Tail(ranges_to_fetch))

\* all_trades.extend(api_trades): the outcome of one range followed by the
\* outcome of the ranges after it.
Extended(first, rest) ==
    [table |-> rest.table,
     ranges |-> rest.ranges,
     all_trades |-> first.all_trades \o rest.all_trades,
     requests |-> first.requests \o rest.requests,
     raised |-> rest.raised]

\* `for range_start, range_end in uncached_ranges`: one
\* fetch_completed_trades per range; an exception ends the loop.
RECURSIVE FetchRanges(_, _, _, _, _, _, _)
FetchRest(exchange, symbol, ranges_to_fetch, oks, available, first) ==
    IF first.raised THEN first
    ELSE Extended(first,
                  FetchRanges(exchange, first.table, first.ranges, symbol,
                              ranges_to_fetch, oks, available))

FetchRanges(exchange, table, ranges, symbol, ranges_to_fetch, oks, available) ==
    IF ranges_to_fetch = <<>>
    THEN [table |-> table, ranges |-> ranges, all_trades |-> <<>>,
          requests |-> <<>>, raised |-> FALSE]
    ELSE LET range_start == Head(ranges_to_fetch)[1]
             range_end == Head(ranges_to_fetch)[2]
             n == Len(ChunkRequests(range_start, range_end))
         IN FetchRest(exchange, symbol, Tail(ranges_to_fetch),
                      SubSeq(oks, n + 1, Len(oks)), available,
                      FetchCompletedTrades(exchange, table, ranges, symbol,
                                           range_start, range_end,
                                           SubSeq(oks, 1, n), available))

\* No fetch yet.
NoCall ==
    [exchange |-> None, symbol |-> None, start_time |-> 0, end_time |-> 0,
     force_refresh |-> FALSE, cached_range |-> Absent, range_before |-> Absent,
     rows_before |-> 0, after_erase |-> FALSE, raised |-> FALSE,
     n_cached |-> 0, from_cache |-> FALSE]

\* The timestamps of the requests of a log that returned the trades or
\* fills of their chunk.
Covering(log) ==
    {t \in Times : \E i \in 1..Len(log) :
        /\ log[i].ok
        /\ log[i].endpoint # "fetch_closed_orders"
        /\ log[i].start_time <= t /\ t <= log[i].end_time}

InitFetchVars ==
    /\ cache_available = TRUE
    /\ call = NoCall
    /\ requests = <<>>
    /\ api_trades = <<>>
    /\ all_trades = <<>>
    /\ covered = [scope \in FetchScopes |-> {}]
    /\ erased = FALSE
    /\ n_fetches = 0

\* end_time of GET /trades: the current time.
Now == MaxTime

\* Mutant of ConsultedRanges: force_refresh is not looked at.
ConsultedRangesAlways(symbol, force_refresh) ==
    IF cache_available
    THEN GetCachedRange(cache_ranges_table, symbol, cache_available)
    ELSE {Absent}

\* What get_cached_range(symbol) may return to the fetch; the cache is not
\* consulted under force_refresh or when it is unavailable.
ConsultedRanges(symbol, force_refresh) ==
    IF ~force_refresh /\ cache_available
    THEN GetCachedRange(cache_ranges_table, symbol, cache_available)
    ELSE {Absent}

\* The possible outcomes of the upstream requests of a fetch: one outcome
\* per chunk.
RequestOutcomes(exchange, cached_range, start_time, end_time) ==
    [1..RequestCount(RangesToFetch(cached_range, start_time, end_time))
        -> Outcomes(exchange)]

\* The lists a SELECT may return for the rows of a bag: every order of them
\* (the query has no ORDER BY).
RECURSIVE Orderings(_)
Orderings(B) ==
    IF BagToSet(B) = {} THEN {<<>>}
    ELSE UNION {{<<r>> \o rest : rest \in Orderings(B (-) SetToBag({r}))} :
                   r \in BagToSet(B)}

\* get_cached_trades(symbol, start_time, end_time): the lists it may return.
\* A row comes back as its columns laid over its raw_data, updatedTime still
\* a text.
GetCachedTrades(table, symbol, start_time, end_time, available) ==
    IF available
    THEN Orderings([r \in Matching(table, symbol, start_time, end_time)
                       |-> CopiesIn(r, table)])
    ELSE {<<>>}

\* get_most_recent_fetch_time(symbol, start_time, end_time): max(fetched_at)
\* of the rows of the period, None when there is no such row or the cache is
\* not available.  The time itself is not modelled: FetchedAt stands for it.
FetchedAt == [fetched_at |-> TRUE]

GetMostRecentFetchTime(table, symbol, start_time, end_time, available) ==
    IF ~available \/ Matching(table, symbol, start_time, end_time) = {}
    THEN Absent
    ELSE FetchedAt

\* `cached_trades = cache_manager.get_cached_trades(...)`, read before the
\* gaps are fetched and only when a cached range was found.
CachedTradesRead(symbol, start_time, end_time, cached_range) ==
    IF cached_range # Absent
    THEN GetCachedTrades(trades_table, symbol, start_time, end_time, cache_available)
    ELSE {<<>>}

\* Mutant of SortNewestFirst: the key is the text of updatedTime.
RECURSIVE SortNewestFirstByText(_)
SortNewestFirstByText(trades) ==
    IF trades = <<>> THEN <<>>
    ELSE LET n == Len(trades)
             sorted == SortNewestFirstByText(SubSeq(trades, 1, n - 1))
             t == trades[n]
             k == Cardinality({i \in 1..Len(sorted) :
                                  TextLeq(t.updatedTime, sorted[i].updatedTime)})
         IN SubSeq(sorted, 1, k) \o <<t>> \o SubSeq(sorted, k + 1, Len(sorted))

\* all_trades.sort(key=lambda x: int(x.get('updatedTime', 0)), reverse=True):
\* a stable sort, the greatest key first, equal keys in their former order.
RECURSIVE SortNewestFirst(_)
SortNewestFirst(trades) ==
    IF trades = <<>> THEN <<>>
    ELSE LET n == Len(trades)
             sorted == SortNewestFirst(SubSeq(trades, 1, n - 1))
             t == trades[n]
             k == Cardinality({i \in 1..Len(sorted) :
                                  ToInt(sorted[i].updatedTime) >= ToInt(t.updatedTime)})
         IN SubSeq(sorted, 1, k) \o <<t>> \o SubSeq(sorted, k + 1, Len(sorted))

\* The list fetch_all_completed_trades_for_period returns: the cached trades
\* followed by the trades of the exchange, sorted.  process_trade adds
\* display fields to each trade and leaves updatedTime as it is.
ReturnedTrades(cached_trades, fetched) ==
    IF fetched.raised THEN <<>>
    ELSE SortNewestFirst(cached_trades \o fetched.all_trades)

\* fetch_all_completed_trades_for_period(exchange, symbol, start_time,
\* end_time, force_refresh) from the current tables, given what
\* get_cached_range returned and the outcomes of the upstream requests: the
\* tables it leaves, the trades the exchange returned and the requests made.
FetchAllCompletedTradesForPeriod(exchange, symbol, start_time, end_time, cached_range, oks) ==
    FetchRanges(exchange, trades_table, cache_ranges_table, symbol,
                RangesToFetch(cached_range, start_time, end_time), oks,
                cache_available)

\* The tables after the fetch.
Committed(fetched) ==
    /\ trades_table' = fetched.table
    /\ cache_ranges_table' = fetched.ranges
    /\ UNCHANGED <<cache_available, upserted, last_batch, rows_before>>

\* 'from_cache' of the response of GET /trades: False under force_refresh,
\* otherwise `cached_at is not None`, cached_at being asked of the table
\* the fetch has left.
FromCache(table, symbol, start_time, end_time, force_refresh, available) ==
    /\ ~force_refresh
    /\ GetMostRecentFetchTime(table, symbol, start_time, end_time, available)
          # Absent

\* The fetch, with its history: its arguments, what it found, what it
\* requested, how many trades it read from the cache and the from_cache the
\* route reports for it.
FetchWithLog(exchange, symbol, start_time, end_time, force_refresh, cached_range, cached_trades, fetched) ==
    /\ call' = [exchange |-> exchange, symbol |-> symbol,
                start_time |-> start_time, end_time |-> end_time,
                force_refresh |-> force_refresh,
                cached_range |-> cached_range,
                range_before |->
                    CHOOSE r \in CachedRanges(cache_ranges_table, symbol) : TRUE,
                rows_before |-> BagCardinality(trades_table),
                after_erase |-> erased,
                raised |-> fetched.raised,
                n_cached |-> Len(cached_trades),
                from_cache |-> FromCache(fetched.table, symbol, start_time,
                                         end_time, force_refresh,
                                         cache_available)]
    /\ requests' = fetched.requests
    /\ api_trades' = fetched.all_trades
    /\ all_trades' = ReturnedTrades(cached_trades, fetched)
    /\ n_fetches' = n_fetches + 1
    /\ erased' = FALSE
    /\ UNCHANGED covered
    /\ Committed(fetched)

\* The fetch, with its history: the timestamps its successful requests
\* covered.
FetchWithCoverage(symbol, fetched) ==
    /\ covered' = [covered EXCEPT ![symbol] = @ \cup Covering(fetched.requests)]
    /\ UNCHANGED <<call, requests, api_trades, all_trades, erased, n_fetches>>
    /\ Committed(fetched)

----------------------------------------------------------------------------
(* get_uncached_ranges as a function of its arguments *)

InitGaps ==
    /\ InitMatcherVars
    /\ InitTxnVars /\ InitPureVars
    /\ InitCacheVars
    /\ InitFetchVars
    /\ gap_cached \in {Absent} \cup [symbol : {None}, oldest_timestamp : Times,
                                   newest_timestamp : Times]
    /\ gap_start \in Times
    /\ gap_end \in Times
    /\ gap_start <= gap_end
    /\ uncached_ranges = <<>>
    /\ gap_returned = FALSE

CallGetUncachedRanges ==
    /\ ~gap_returned
    /\ uncached_ranges' = GetUncachedRanges(gap_cached, gap_start, gap_end)
    /\ gap_returned' = TRUE
    /\ UNCHANGED <<gap_cached, gap_start, gap_end, matcher_vars, cache_vars, fetch_vars,
                   txn_vars, pure_vars>>

NextGaps == CallGetUncachedRanges

SpecGaps == InitGaps /\ [][NextGaps]_vars

----------------------------------------------------------------------------
(* The trades table under sequential cache_trades calls *)

InitStore == InitMatcherVars /\ InitCacheVars /\ InitGapVars /\ InitFetchVars
    /\ InitTxnVars /\ InitPureVars

CallCacheTrades ==
    \E trades \in Batches :
        CacheTrades(trades) /\ UNCHANGED <<matcher_vars, gap_vars, txn_vars, pure_vars, fetch_vars>>

NextStore == CallCacheTrades

SpecStore == InitStore /\ [][NextStore]_vars

----------------------------------------------------------------------------
(* cache_trades on batches that may hold malformed trades *)

\* A text int() refuses: a digit followed by a character that is no digit
\* (characters other than the digits 0..9 are written as numbers above 9).
NotANumber == <<1, 10>>

\* int(text) succeeds: the text is a non-empty run of digits.
IsIntText(text) == text # <<>> /\ \A i \in 1..Len(text) : text[i] \in 0..9

\* The trades a batch may hold: well-formed BTCUSDT trades of the three
\* oldest timestamps, a trade without the key 'updatedTime', and a trade
\* whose updatedTime is no integer.
MalformedTrades ==
    {t \in Trades : t.symbol = "BTCUSDT" /\ ToInt(t.updatedTime) <= 11}
        \cup {[symbol |-> "BTCUSDT"]}
        \cup {[symbol |-> "BTCUSDT", updatedTime |-> NotANumber]}

MalformedBatches == UNION {[1..n -> MalformedTrades] : n \in 1..MaxBatch}

\* The exception one iteration of the loop of cache_trades raises on a trade:
\* trade['updatedTime'] of the SELECT raises KeyError when the key is
\* missing; int(trade.get('updatedTime', '0')) of insert_data, reached only
\* `if not existing`, raises ValueError when the text is no integer.
RaisedBy(table, trade) ==
    IF "updatedTime" \notin DOMAIN trade THEN "KeyError"
    ELSE IF Existing(table, trade) = {} /\ ~IsIntText(trade.updatedTime)
    THEN "ValueError"
    ELSE "none"

\* `for trade in trades` inside the transaction: the rows as this
\* connection sees them when the loop ends or an exception leaves it.
RECURSIVE TransactionLoop(_, _)
TransactionLoop(table, trades) ==
    IF trades = <<>> THEN [table |-> table, exception |-> "none"]
    ELSE IF RaisedBy(table, Head(trades)) # "none"
    THEN [table |-> table, exception |-> RaisedBy(table, Head(trades))]
    ELSE TransactionLoop(InsertIfAbsent(table, Head(trades)), Tail(trades))

\* Mutant of EngineBegin: the transaction commits what was inserted before
\* the exception.
EngineBeginCommitsAlways(table, trades) == TransactionLoop(table, trades)

\* `with self.engine.begin() as conn:`: the block's inserts are committed
\* when it ends and rolled back when an exception leaves it.
EngineBegin(table, trades) ==
    LET block == TransactionLoop(table, trades)
    IN IF block.exception = "none" THEN block
       ELSE [table |-> table, exception |-> block.exception]

\* `except Exception as e:` of cache_trades: KeyError and ValueError are
\* Exceptions, so neither leaves the method.
CaughtByExceptException(exception) == exception \in {"KeyError", "ValueError"}

\* cache_trades(trades) as a whole: the table it leaves, the exception
\* raised inside it and whether that exception reaches the caller.
CacheTradesCall(table, trades, available) ==
    IF ~available \/ trades = <<>>
    THEN [table |-> table, exception |-> "none", propagated |-> FALSE]
    ELSE LET done == EngineBegin(table, trades)
         IN [table |-> done.table, exception |-> done.exception,
             propagated |-> /\ done.exception # "none"
                            /\ ~CaughtByExceptException(done.exception)]

\* cache_trades is called with a batch that may hold malformed trades.
CallCacheTradesMalformed ==
    \E trades \in MalformedBatches :
        LET result == CacheTradesCall(trades_table, trades, cache_available)
        IN /\ trades_table' = result.table
           /\ cache_call' = [exception |-> result.exception,
                             propagated |-> result.propagated]
           /\ last_batch' = trades
           /\ rows_before' = BagCardinality(trades_table)
           /\ UNCHANGED <<cache_ranges_table, upserted, matcher_vars, gap_vars,
                          txn_vars, fetch_vars, query, processed_trade, tally>>

SpecAtomic == InitStore /\ [][CallCacheTradesMalformed]_vars

----------------------------------------------------------------------------
(* The cache_ranges table under update_cache_ranges calls *)

\* The scopes update_cache_ranges is called for.
RangeScopes == {"BTCUSDT", None}

InitRanges == InitMatcherVars /\ InitCacheVars /\ InitGapVars /\ InitFetchVars
    /\ InitTxnVars /\ InitPureVars

\* The trades stored between the updates: the BTCUSDT trades of the three
\* oldest timestamps, and one trade of another symbol, which only the "all
\* symbols" scope sees.
RangeTrades ==
    {t \in Trades : ToInt(t.updatedTime) <= 11
                    /\ (t.symbol = "BTCUSDT" \/ ToInt(t.updatedTime) = 10)}

\* A trade is stored (cache_trades with one trade).
StoreTrade ==
    \E trade \in RangeTrades :
        /\ trades_table' = CacheTradesLoop(trades_table, <<trade>>)
        /\ UNCHANGED <<cache_ranges_table, upserted, last_batch, rows_before,
                       matcher_vars, gap_vars, txn_vars, pure_vars, fetch_vars>>

CallUpdateCacheRanges ==
    \E symbol \in RangeScopes, start_time \in Times, end_time \in Times :
        /\ start_time <= end_time
        /\ UpdateCacheRanges(symbol, start_time, end_time)
        /\ UNCHANGED <<matcher_vars, gap_vars, txn_vars, pure_vars, fetch_vars>>

NextRanges == StoreTrade \/ CallUpdateCacheRanges

SpecRanges == InitRanges /\ [][NextRanges]_vars

----------------------------------------------------------------------------
(* The matching pass, one fill per step *)

\* One iteration of `for trade in symbol_trades` on fill f.
ProcessTrade(f) ==
    /\ ~aborted
    /\ n_fills < MaxFills
    /\ LET r == ProcessFill(open_positions, f)
       IN /\ open_positions' = r.positions
          /\ formatted_trades' = formatted_trades \o r.trades
          /\ emitted' = r.trades
          /\ aborted' = r.raised
    /\ prev_positions' = open_positions
    /\ last_fill' = f
    /\ n_fills' = n_fills + 1

OpenFill ==
    \E f \in FillsAt(n_fills + 1) :
        f.dir \in {"Open Long", "Open Short"} /\ ProcessTrade(f)

CloseFill ==
    \E f \in FillsAt(n_fills + 1) :
        f.dir \in {"Close Long", "Close Short"} /\ ProcessTrade(f)

FlipFill ==
    \E f \in FillsAt(n_fills + 1) :
        f.dir \in {"Short > Long", "Long > Short"} /\ ProcessTrade(f)

NextMatcher ==
    \/ OpenFill /\ UNCHANGED <<cache_vars, gap_vars, txn_vars, pure_vars, fetch_vars>>
    \/ CloseFill /\ UNCHANGED <<cache_vars, gap_vars, txn_vars, pure_vars, fetch_vars>>
    \/ FlipFill /\ UNCHANGED <<cache_vars, gap_vars, txn_vars, pure_vars, fetch_vars>>

InitMatcher == InitMatcherVars /\ InitCacheVars /\ InitGapVars /\ InitFetchVars
    /\ InitTxnVars /\ InitPureVars

SpecMatcher == InitMatcher /\ [][NextMatcher]_vars

----------------------------------------------------------------------------
(* The matching pass with the totals of the pass recorded *)

\* The lot the fill opened, if it opened one: `open_positions[side].append`
\* of an open fill or of a flip with size left over.
Appended(before, after) ==
    {[side |-> side, size |-> after[side][Len(after[side])].size,
      fee |-> after[side][Len(after[side])].fee] :
        side \in {x \in Sides : Len(after[x]) > Len(before[x])}}

\* A fill is matched when it opened a lot or closed one: every open and flip
\* fill, and a close fill that found a lot.
Matched(f, before, after, trades) ==
    Appended(before, after) # {} \/ trades # <<>>

\* The totals after fill f took the queues from `before` to `after`.
Tallied(totals, f, before, after, trades) ==
    [lots |-> IF Appended(before, after) = {} THEN totals.lots
              ELSE [totals.lots EXCEPT
                      ![f.time] = CHOOSE lot \in Appended(before, after) : TRUE],
     fees |-> IF Matched(f, before, after, trades) THEN totals.fees + f.fee
              ELSE totals.fees]

Tally == tally' = Tallied(tally, last_fill', open_positions, open_positions', emitted')

NextTally ==
    \/ OpenFill /\ Tally
          /\ UNCHANGED <<cache_vars, gap_vars, txn_vars, fetch_vars, query,
                         processed_trade, cache_call>>
    \/ CloseFill /\ Tally
          /\ UNCHANGED <<cache_vars, gap_vars, txn_vars, fetch_vars, query,
                         processed_trade, cache_call>>
    \/ FlipFill /\ Tally
          /\ UNCHANGED <<cache_vars, gap_vars, txn_vars, fetch_vars, query,
                         processed_trade, cache_call>>

SpecTally == InitMatcher /\ [][NextTally]_vars

----------------------------------------------------------------------------
(* The matching pass followed by the upsert of its output *)

\* `self.cache_manager.cache_trades(formatted_trades, ...)` of
\* fetch_completed_trades, on a store that holds nothing yet.
CacheFormattedTrades ==
    /\ formatted_trades # <<>>
    /\ last_batch = <<>>
    /\ trades_table = EmptyBag
    /\ CacheTrades(formatted_trades)

NextPersist ==
    \/ OpenFill /\ UNCHANGED <<cache_vars, gap_vars, txn_vars, pure_vars, fetch_vars>>
    \/ CloseFill /\ UNCHANGED <<cache_vars, gap_vars, txn_vars, pure_vars, fetch_vars>>
    \/ FlipFill /\ UNCHANGED <<cache_vars, gap_vars, txn_vars, pure_vars, fetch_vars>>
    \/ CacheFormattedTrades
          /\ UNCHANGED <<matcher_vars, gap_vars, txn_vars, pure_vars, fetch_vars>>

SpecPersist == InitMatcher /\ [][NextPersist]_vars

----------------------------------------------------------------------------
(* The matching pass over fills with missing fields *)

\* The fills that may arrive with timestamp t when info.sz, or info.px and
\* info.fee, may be missing: a missing field is read as 0
\* (float(trade_info.get('sz', 0))).
MalformedFillsAt(t) ==
    {[dir |-> d, sz |-> s, px |-> q[1], fee |-> q[2], time |-> t] :
        d \in Directions, s \in {0, 1}, q \in {<<0, 0>>, <<1, FeeScale>>}}

MalformedFill == \E f \in MalformedFillsAt(n_fills + 1) : ProcessTrade(f)

NextMalformed == MalformedFill /\ UNCHANGED <<cache_vars, gap_vars, txn_vars, pure_vars, fetch_vars>>

InitMalformed == InitMatcherVars /\ InitCacheVars /\ InitGapVars /\ InitFetchVars
    /\ InitTxnVars /\ InitPureVars

SpecMalformed == InitMalformed /\ [][NextMalformed]_vars

----------------------------------------------------------------------------
(* The reconciler: fetches of both exchanges over the shared cache *)

Init == InitMatcherVars /\ InitCacheVars /\ InitGapVars /\ InitFetchVars
    /\ InitTxnVars /\ InitPureVars

\* GET /trades?exchange=..&symbol=..&days=.. with the given force_refresh,
\* its fetch logged.
GetCompletedTrades(force_refresh) ==
    /\ n_fetches < MaxFetches
    /\ \E exchange \in Exchanges :
         \E symbol \in ExchangeSymbols(exchange), start_time \in Times :
           \E cached_range \in ConsultedRanges(symbol, force_refresh) :
             \E oks \in RequestOutcomes(exchange, cached_range, start_time, Now),
                cached_trades \in CachedTradesRead(symbol, start_time, Now,
                                                   cached_range) :
               FetchWithLog(exchange, symbol, start_time, Now, force_refresh,
                            cached_range, cached_trades,
                            FetchAllCompletedTradesForPeriod(exchange, symbol, start_time,
                                                             Now, cached_range, oks))
    /\ UNCHANGED <<matcher_vars, gap_vars, txn_vars, pure_vars>>

FetchTrades == GetCompletedTrades(FALSE)

ForceRefresh == GetCompletedTrades(TRUE)

Next == FetchTrades \/ ForceRefresh

Spec == Init /\ [][Next]_vars

----------------------------------------------------------------------------
(* The reconciler asked again and again without force_refresh *)

\* The number of requests followed.
MaxRefetches == 3

\* The exchanges whose requests are followed here.
RefetchExchanges == {"bybit"}

\* GET /trades?exchange=..&symbol=..&days=.. without force_refresh.
RefetchTrades ==
    /\ n_fetches < MaxRefetches
    /\ \E exchange \in RefetchExchanges :
         \E symbol \in ExchangeSymbols(exchange), start_time \in Times :
           \E cached_range \in ConsultedRanges(symbol, FALSE) :
             \E oks \in RequestOutcomes(exchange, cached_range, start_time, Now),
                cached_trades \in CachedTradesRead(symbol, start_time, Now,
                                                   cached_range) :
               FetchWithLog(exchange, symbol, start_time, Now, FALSE,
                            cached_range, cached_trades,
                            FetchAllCompletedTradesForPeriod(exchange, symbol, start_time,
                                                             Now, cached_range, oks))
    /\ UNCHANGED <<matcher_vars, gap_vars, txn_vars, pure_vars>>

SpecRefetch == Init /\ [][RefetchTrades]_vars

----------------------------------------------------------------------------
(* A fill-stream source asked for a growing period, every request answered *)

\* Every upstream request of these ranges returns the fills of its chunk.
AllAnswered(ranges_to_fetch) ==
    [i \in 1..RequestCount(ranges_to_fetch) |-> "ok"]

\* GET /trades?exchange=hyperliquid&symbol=.. without force_refresh for the
\* period [start_time, end_time], made when the time is end_time: the time
\* of a request is not before the time of the one before it, and the period
\* starts where the period of the one before it started.
FetchUntil(end_time) ==
    /\ n_fetches < MaxRefetches
    /\ call.end_time <= end_time
    /\ \E symbol \in ExchangeSymbols("hyperliquid"), start_time \in Times :
         /\ start_time <= end_time
         /\ n_fetches > 0 => start_time = call.start_time
         /\ \E cached_range \in ConsultedRanges(symbol, FALSE) :
              \E cached_trades \in CachedTradesRead(symbol, start_time, end_time,
                                                    cached_range) :
                FetchWithLog("hyperliquid", symbol, start_time, end_time, FALSE,
                             cached_range, cached_trades,
                             FetchAllCompletedTradesForPeriod(
                                 "hyperliquid", symbol, start_time, end_time,
                                 cached_range,
                                 AllAnswered(RangesToFetch(cached_range, start_time,
                                                           end_time))))
    /\ UNCHANGED <<matcher_vars, gap_vars, txn_vars, pure_vars>>

FetchLater == \E end_time \in Times : FetchUntil(end_time)

SpecPasses == Init /\ [][FetchLater]_vars

----------------------------------------------------------------------------
(* The reconciler with the coverage of every scope recorded *)

InitCoverage == InitMatcherVars /\ InitCacheVars /\ InitGapVars /\ InitFetchVars
    /\ InitTxnVars /\ InitPureVars

\* The exchanges whose fetches are followed here.
CoverageExchanges == {"bybit"}

\* GET /trades with the given force_refresh, its coverage recorded.
GetCompletedTradesCovering(force_refresh) ==
    /\ \E exchange \in CoverageExchanges :
         \E symbol \in ExchangeSymbols(exchange), start_time \in Times :
           \E cached_range \in ConsultedRanges(symbol, force_refresh) :
             \E oks \in RequestOutcomes(exchange, cached_range, start_time, Now) :
               FetchWithCoverage(symbol,
                                 FetchAllCompletedTradesForPeriod(exchange, symbol,
                                                                  start_time, Now,
                                                                  cached_range, oks))
    /\ UNCHANGED <<matcher_vars, gap_vars, txn_vars, pure_vars>>

CoveringFetch == GetCompletedTradesCovering(FALSE)

CoveringRefresh == GetCompletedTradesCovering(TRUE)

NextCoverage == CoveringFetch \/ CoveringRefresh

SpecCoverage == InitCoverage /\ [][NextCoverage]_vars

----------------------------------------------------------------------------
(* The reconciler with POST /erase-db *)

\* Mutant of ErasedByRoute: the route answers without erasing.
NotErasedByRoute(table, ranges, available) == [table |-> table, ranges |-> ranges]

\* CacheManager.clear_database(): the body is not in cache_manager.py; by
\* the specification it wipes all stored records and ranges.
ClearDatabase(table, ranges) == [table |-> EmptyBag, ranges |-> EmptyBag]

\* The tables POST /erase-db leaves: clear_database is called when the
\* cache is available, otherwise the route answers 400.
ErasedByRoute(table, ranges, available) ==
    IF available THEN ClearDatabase(table, ranges)
    ELSE [table |-> table, ranges |-> ranges]

\* POST /erase-db.
EraseDatabase ==
    /\ trades_table' = ErasedByRoute(trades_table, cache_ranges_table,
                                     cache_available).table
    /\ cache_ranges_table' = ErasedByRoute(trades_table, cache_ranges_table,
                                           cache_available).ranges
    /\ erased' = cache_available
    /\ UNCHANGED <<cache_available, call, requests, api_trades, all_trades, covered,
                   n_fetches>>
    /\ UNCHANGED <<upserted, last_batch, rows_before, matcher_vars, gap_vars, txn_vars, pure_vars>>

InitErase == InitMatcherVars /\ InitCacheVars /\ InitGapVars /\ InitFetchVars
    /\ InitTxnVars /\ InitPureVars

NextErase == FetchTrades \/ ForceRefresh \/ EraseDatabase

SpecErase == InitErase /\ [][NextErase]_vars

----------------------------------------------------------------------------
(* The application started without a reachable database *)

\* What the database may hold when the application starts: nothing, or the
\* rows and the range an earlier run left after fetching BTCUSDT from bybit
\* over [10, MaxTime].
StoredBefore ==
    {[table |-> EmptyBag, ranges |-> EmptyBag],
     [table |-> BybitFetchCompletedTrades(EmptyBag, EmptyBag, "BTCUSDT", 10, MaxTime,
                                          <<"ok", "ok">>, TRUE).table,
      ranges |-> BybitFetchCompletedTrades(EmptyBag, EmptyBag, "BTCUSDT", 10, MaxTime,
                                           <<"ok", "ok">>, TRUE).ranges]}

\* CacheManager.__init__ without db_url, or with create_engine / create_all
\* raising: engine is None and is_cache_available() is False from then on.
InitNoCache ==
    /\ InitMatcherVars
    /\ InitTxnVars /\ InitPureVars
    /\ InitGapVars
    /\ \E stored \in StoredBefore :
          /\ trades_table = stored.table
          /\ cache_ranges_table = stored.ranges
    /\ upserted = {}
    /\ last_batch = <<>>
    /\ rows_before = 0
    /\ cache_available = FALSE
    /\ call = NoCall
    /\ requests = <<>>
    /\ api_trades = <<>>
    /\ all_trades = <<>>
    /\ covered = [scope \in FetchScopes |-> {}]
    /\ erased = FALSE
    /\ n_fetches = 0

\* cache_trades(trades) called on its own, once in a behaviour.
UpsertTrades ==
    /\ last_batch = <<>>
    /\ \E trades \in Batches :
          CacheTrades(trades) /\ UNCHANGED <<matcher_vars, gap_vars, txn_vars, pure_vars, fetch_vars>>

\* update_cache_ranges(symbol, start_time, end_time) called on its own.
ExtendRange ==
    \E symbol \in RangeScopes, start_time \in Times, end_time \in Times :
        /\ start_time <= end_time
        /\ UpdateCacheRanges(symbol, start_time, end_time)
        /\ UNCHANGED <<matcher_vars, gap_vars, txn_vars, pure_vars, fetch_vars>>

\* GET /trades, once in a behaviour.
FetchUncached == n_fetches = 0 /\ FetchTrades

RefreshUncached == n_fetches = 0 /\ ForceRefresh

NextNoCache == FetchUncached \/ RefreshUncached \/ UpsertTrades \/ ExtendRange

SpecNoCache == InitNoCache /\ [][NextNoCache]_vars

----------------------------------------------------------------------------
(* One fetch_completed_trades call over any period *)

InitChunks == InitMatcherVars /\ InitCacheVars /\ InitGapVars /\ InitFetchVars
    /\ InitTxnVars /\ InitPureVars

\* The start_time and end_time the call may be given: periods of up to
\* MaxWindow + 1 timestamps that end no later than MaxTime.
ChunkTimes == (MaxTime - MaxWindow)..MaxTime

\* exchange.fetch_completed_trades(symbol, start_time, end_time) on the
\* empty store, logged.
CallFetchCompletedTrades ==
    /\ n_fetches = 0
    /\ \E exchange \in Exchanges :
         \E symbol \in ExchangeSymbols(exchange),
            start_time \in ChunkTimes, end_time \in ChunkTimes :
           /\ start_time <= end_time
           /\ \E oks \in [1..Len(ChunkRequests(start_time, end_time))
                             -> Outcomes(exchange)] :
                FetchWithLog(exchange, symbol, start_time, end_time, FALSE, Absent,
                             <<>>,
                             FetchCompletedTrades(exchange, trades_table,
                                                  cache_ranges_table, symbol,
                                                  start_time, end_time, oks,
                                                  cache_available))
    /\ UNCHANGED <<matcher_vars, gap_vars, txn_vars, pure_vars>>

NextChunks == CallFetchCompletedTrades

SpecChunks == InitChunks /\ [][NextChunks]_vars

----------------------------------------------------------------------------
(* get_cached_trades as a function of the stored rows and its arguments *)

\* The trades that may be stored when get_cached_trades is called: both
\* symbols, timestamps of one and of two digits.
QueryTrades == {t \in Trades : ToInt(t.updatedTime) <= 11}

\* The tables get_cached_trades may find: up to MaxBatch + 1 of these trades,
\* stored by earlier cache_trades calls.
QueryTables ==
    {CacheTradesLoop(EmptyBag, trades) :
        trades \in UNION {[1..n -> QueryTrades] : n \in 0..(MaxBatch + 1)}}

InitQuery ==
    /\ InitMatcherVars /\ InitGapVars /\ InitFetchVars /\ InitTxnVars
    /\ InitPureVars
    /\ trades_table \in QueryTables
    /\ cache_ranges_table = EmptyBag
    /\ upserted = {}
    /\ last_batch = <<>>
    /\ rows_before = 0

\* get_cached_trades(symbol, start_time, end_time), each argument a value or
\* None (0 for the times), and one of the lists it may return.
CallGetCachedTrades ==
    /\ ~query.returned
    /\ \E symbol \in Scopes, start_time \in Times \cup {0}, end_time \in Times \cup {0} :
         \E trades \in GetCachedTrades(trades_table, symbol, start_time, end_time,
                                       cache_available) :
            query' = [symbol |-> symbol, start_time |-> start_time,
                      end_time |-> end_time, returned |-> TRUE, trades |-> trades]
    /\ UNCHANGED <<processed_trade, tally, cache_call>>
    /\ UNCHANGED <<matcher_vars, cache_vars, gap_vars, fetch_vars, txn_vars>>

NextQuery == CallGetCachedTrades

SpecQuery == InitQuery /\ [][NextQuery]_vars

----------------------------------------------------------------------------
(* process_trade: the ROI of a trade *)

\* abs(x).
Abs(x) == IF x < 0 THEN -x ELSE x

\* a / b of two floats: ZeroDivisionError when b is 0, otherwise the
\* quotient, kept as the fraction num / den.
Divide(a, b) ==
    IF b = 0 THEN [raised |-> TRUE, num |-> 0, den |-> 1]
    ELSE [raised |-> FALSE, num |-> a, den |-> b]

\* q * 100.
TimesHundred(q) == [q EXCEPT !.num = @ * 100]

\* trade['roi'] = 0.
ZeroRoi == [raised |-> FALSE, num |-> 0, den |-> 1]

\* BybitExchange.process_trade: the roi it sets for a trade that has
\* closedPnl, avgEntryPrice and qty.
BybitRoi(closedPnl, avgEntryPrice, qty) ==
    LET pnl == closedPnl
        entry_price == avgEntryPrice
        investment == entry_price * Abs(qty)
    IN IF investment # 0 THEN TimesHundred(Divide(pnl, investment)) ELSE ZeroRoi

\* Mutant of HyperliquidRoi: the quotient is taken whatever the investment.
HyperliquidRoiUnguarded(closedPnl, avgEntryPrice, qty) ==
    TimesHundred(Divide(closedPnl, avgEntryPrice * Abs(qty)))

\* HyperliquidExchange.process_trade: the roi it sets.
HyperliquidRoi(closedPnl, avgEntryPrice, qty) ==
    LET pnl == closedPnl
        entry_price == avgEntryPrice
        investment == entry_price * Abs(qty)
    IN IF investment # 0 THEN TimesHundred(Divide(pnl, investment)) ELSE ZeroRoi

\* exchange.process_trade(trade).
ProcessTradeRoi(exchange, closedPnl, avgEntryPrice, qty) ==
    IF exchange = "bybit" THEN BybitRoi(closedPnl, avgEntryPrice, qty)
    ELSE HyperliquidRoi(closedPnl, avgEntryPrice, qty)

InitRoi == InitMatcherVars /\ InitCacheVars /\ InitGapVars /\ InitFetchVars
    /\ InitTxnVars /\ InitPureVars

\* process_trade on a trade of either exchange: PnL of either sign, entry
\* price and quantity that may be 0, quantity of either sign.
CallProcessTrade ==
    /\ ~processed_trade.done
    /\ \E exchange \in Exchanges, closedPnl \in (-MaxSize)..MaxSize,
          avgEntryPrice \in 0..MaxSize, qty \in (-MaxSize)..MaxSize :
         processed_trade' =
             [exchange |-> exchange, closedPnl |-> closedPnl,
              avgEntryPrice |-> avgEntryPrice, qty |-> qty, done |-> TRUE,
              roi |-> ProcessTradeRoi(exchange, closedPnl, avgEntryPrice, qty)]
    /\ UNCHANGED <<matcher_vars, cache_vars, gap_vars, fetch_vars, txn_vars, query,
                   tally, cache_call>>

NextRoi == CallProcessTrade

SpecRoi == InitRoi /\ [][NextRoi]_vars

----------------------------------------------------------------------------
(* Stored rows under upserts that carry a stored key again *)

\* The trades given to cache_trades on its own: BTCUSDT at a timestamp the
\* exchange has a trade for, with one of two realised PnLs, so that a batch or
\* a fetch may carry a stored key with another payload.
PricedTrades ==
    [symbol : {"BTCUSDT"}, updatedTime : {Str(t) : t \in {t \in Times : t = 10}},
     closedPnl : {1, 2}]

PricedBatches == UNION {[1..n -> PricedTrades] : n \in 1..MaxBatch}

InitImmutable == InitMatcherVars /\ InitCacheVars /\ InitGapVars /\ InitFetchVars
    /\ InitTxnVars /\ InitPureVars

\* cache_trades(trades) called on its own, before the fetch.
UpsertPriced ==
    \E trades \in PricedBatches :
        /\ n_fetches = 0
        /\ trades_table' = IF cache_available
                           THEN CacheTradesLoop(trades_table, trades)
                           ELSE trades_table
        /\ last_batch' = trades
        /\ UNCHANGED <<cache_ranges_table, upserted, rows_before, matcher_vars,
                       gap_vars, fetch_vars, txn_vars, pure_vars>>

\* update_cache_ranges(symbol, start_time, end_time) called on its own.
ExtendStored ==
    \E symbol \in RangeScopes, start_time \in Times, end_time \in Times :
        /\ start_time <= end_time
        /\ UpdateCacheRanges(symbol, start_time, end_time)
        /\ UNCHANGED <<matcher_vars, gap_vars, fetch_vars, txn_vars, pure_vars>>

\* GET /trades, once in a behaviour.
FetchOverStored == n_fetches = 0 /\ FetchTrades

RefreshOverStored == n_fetches = 0 /\ ForceRefresh

NextImmutable == UpsertPriced \/ ExtendStored \/ FetchOverStored \/ RefreshOverStored

SpecImmutable == InitImmutable /\ [][NextImmutable]_vars

----------------------------------------------------------------------------
(* cache_trades and update_cache_ranges as concurrent transactions *)

\* The engine is PostgreSQL's (the postgresql:// URL of __init__), created
\* with no isolation_level: transactions run at READ COMMITTED.  A statement
\* sees the rows committed before it starts and the rows its own transaction
\* wrote.  Neither table declares a unique constraint, so an INSERT neither
\* waits for nor fails on a row of another transaction; an UPDATE waits for a
\* transaction that has updated the same rows and not committed yet.

\* The trades given to concurrent cache_trades calls: one symbol, the two
\* oldest timestamps.
TxnTrades == {t \in Trades : t.symbol = "BTCUSDT" /\ ToInt(t.updatedTime) <= 10}

TxnBatches == UNION {[1..n -> TxnTrades] : n \in 1..MaxBatch}

\* The periods given to concurrent update_cache_ranges calls.
TxnTimes == {t \in Times : t <= 10}

\* `with self.engine.begin() as conn:` of cache_trades.
BeginCacheTrades(c) ==
    /\ txn[c] = NoTxn
    /\ \E trades \in TxnBatches :
          txn' = [txn EXCEPT ![c] = [op |-> "cache_trades", pc |-> "select",
                                     trades |-> trades, existing |-> {},
                                     inserted |-> EmptyBag]]
    /\ UNCHANGED <<matcher_vars, cache_vars, gap_vars, fetch_vars, pure_vars>>

\* existing = conn.execute(query).fetchone() for the next trade of the list.
SelectExisting(c) ==
    /\ txn[c].op = "cache_trades" /\ txn[c].pc = "select"
    /\ txn' = [txn EXCEPT ![c].existing =
                              Existing(trades_table (+) txn[c].inserted,
                                       Head(txn[c].trades)),
                          ![c].pc = "insert"]
    /\ UNCHANGED <<matcher_vars, cache_vars, gap_vars, fetch_vars, pure_vars>>

\* `if not existing:` conn.execute(self.trades_table.insert().values(...)),
\* then the next trade, or the end of the `with` block.
InsertTrade(c) ==
    /\ txn[c].op = "cache_trades" /\ txn[c].pc = "insert"
    /\ txn' = [txn EXCEPT ![c].inserted =
                              IF txn[c].existing = {}
                              THEN @ (+) SetToBag({TradeRow(Head(txn[c].trades))})
                              ELSE @,
                          ![c].trades = Tail(@),
                          ![c].pc = IF Tail(txn[c].trades) = <<>>
                                    THEN "commit" ELSE "select"]
    /\ UNCHANGED <<matcher_vars, cache_vars, gap_vars, fetch_vars, pure_vars>>

\* scalar() of min() or max() over no row: None, falsy as the empty text is.
NoText == <<>>

\* `with self.engine.begin() as conn:` of update_cache_ranges.
BeginUpdateCacheRanges(c) ==
    /\ txn[c] = NoTxn
    /\ \E start_time \in TxnTimes, end_time \in TxnTimes :
          /\ start_time <= end_time
          /\ txn' = [txn EXCEPT ![c] = [op |-> "update_cache_ranges", pc |-> "min",
                                        symbol |-> "BTCUSDT",
                                        start_time |-> start_time,
                                        end_time |-> end_time,
                                        oldest_timestamp |-> NoText,
                                        newest_timestamp |-> NoText,
                                        existing_range |-> Absent,
                                        inserted |-> EmptyBag,
                                        locked |-> EmptyBag,
                                        updated |-> EmptyBag]]
    /\ UNCHANGED <<matcher_vars, cache_vars, gap_vars, fetch_vars, pure_vars>>

\* oldest_timestamp = conn.execute(min_query).scalar().
MinQuery(c) ==
    /\ txn[c].op = "update_cache_ranges" /\ txn[c].pc = "min"
    /\ LET observed == ObservedBounds(trades_table, txn[c].symbol,
                                      txn[c].start_time, txn[c].end_time)
       IN txn' = [txn EXCEPT ![c].oldest_timestamp =
                                 IF observed = Absent THEN NoText
                                 ELSE observed.oldest_timestamp,
                             ![c].pc = "max"]
    /\ UNCHANGED <<matcher_vars, cache_vars, gap_vars, fetch_vars, pure_vars>>

\* newest_timestamp = conn.execute(max_query).scalar(), and
\* `if not oldest_timestamp or not newest_timestamp: return`.
MaxQuery(c) ==
    /\ txn[c].op = "update_cache_ranges" /\ txn[c].pc = "max"
    /\ LET observed == ObservedBounds(trades_table, txn[c].symbol,
                                      txn[c].start_time, txn[c].end_time)
           newest_timestamp == IF observed = Absent THEN NoText
                               ELSE observed.newest_timestamp
       IN txn' = [txn EXCEPT ![c].newest_timestamp = newest_timestamp,
                             ![c].pc = IF txn[c].oldest_timestamp = NoText
                                          \/ newest_timestamp = NoText
                                       THEN "commit" ELSE "existing"]
    /\ UNCHANGED <<matcher_vars, cache_vars, gap_vars, fetch_vars, pure_vars>>

\* existing_range = conn.execute(range_query).fetchone(): any one row of the
\* scope, or None.
SelectRange(c) ==
    /\ txn[c].op = "update_cache_ranges" /\ txn[c].pc = "existing"
    /\ \E existing_range \in
             IF RangeRows(cache_ranges_table, txn[c].symbol) = {} THEN {Absent}
             ELSE RangeRows(cache_ranges_table, txn[c].symbol) :
          txn' = [txn EXCEPT ![c].existing_range = existing_range,
                             ![c].pc = "write"]
    /\ UNCHANGED <<matcher_vars, cache_vars, gap_vars, fetch_vars, pure_vars>>

\* The rows of the scope in the committed table, with their multiplicities.
ScopeBag(ranges, symbol) ==
    [r \in RangeRows(ranges, symbol) |-> CopiesIn(r, ranges)]

\* `if existing_range:` UPDATE ... WHERE symbol == symbol, which waits while
\* another transaction holds the rows; `else:` INSERT.
WriteRange(c) ==
    /\ txn[c].op = "update_cache_ranges" /\ txn[c].pc = "write"
    /\ IF txn[c].existing_range # Absent
       THEN /\ \A other \in Connections \ {c} :
                  ~(/\ txn[other].op = "update_cache_ranges"
                    /\ txn[other].locked # EmptyBag)
            /\ LET locked == ScopeBag(cache_ranges_table, txn[c].symbol)
                   update_data == WidenedRange(txn[c].existing_range,
                                               txn[c].oldest_timestamp,
                                               txn[c].newest_timestamp)
               IN txn' = [txn EXCEPT
                            ![c].locked = locked,
                            ![c].updated =
                                MapBag(locked, [r \in BagToSet(locked) |-> update_data]),
                            ![c].pc = "commit"]
       ELSE txn' = [txn EXCEPT
                      ![c].inserted =
                          SetToBag({[symbol |-> txn[c].symbol,
                                     oldest_timestamp |-> txn[c].oldest_timestamp,
                                     newest_timestamp |-> txn[c].newest_timestamp]}),
                      ![c].pc = "commit"]
    /\ UNCHANGED <<matcher_vars, cache_vars, gap_vars, fetch_vars, pure_vars>>

\* The end of the `with self.engine.begin()` block: the transaction commits.
Commit(c) ==
    /\ txn[c].pc = "commit"
    /\ IF txn[c].op = "cache_trades"
       THEN /\ trades_table' = trades_table (+) txn[c].inserted
            /\ UNCHANGED cache_ranges_table
       ELSE /\ cache_ranges_table' =
                   ((cache_ranges_table (-) txn[c].locked) (+) txn[c].updated)
                       (+) txn[c].inserted
            /\ UNCHANGED trades_table
    /\ txn' = [txn EXCEPT ![c] = NoTxn]
    /\ UNCHANGED <<upserted, last_batch, rows_before, matcher_vars, gap_vars,
                   fetch_vars, pure_vars>>

InitConcurrent ==
    InitMatcherVars /\ InitCacheVars /\ InitGapVars /\ InitFetchVars /\ InitTxnVars
        /\ InitPureVars

NextConcurrent ==
    \E c \in Connections :
        \/ BeginCacheTrades(c)
        \/ SelectExisting(c)
        \/ InsertTrade(c)
        \/ BeginUpdateCacheRanges(c)
        \/ MinQuery(c)
        \/ MaxQuery(c)
        \/ SelectRange(c)
        \/ WriteRange(c)
        \/ Commit(c)

SpecConcurrent == InitConcurrent /\ [][NextConcurrent]_vars

----------------------------------------------------------------------------
(* Properties of get_uncached_ranges, checked under SpecGaps *)

\* C1: get_uncached_ranges(cached_range, s, e) returns [(s, e)] when there
\* is no cached range; otherwise (s, oldest - 1) if s < oldest followed by
\* (newest + 1, e) if e > newest, and the empty list when oldest <= s and
\* e <= newest; for [100, 200] and request [50, 250] it is
\* [(50, 99), (201, 250)].
C1_GapComputation ==
    /\ gap_returned =>
          LET s == gap_start
              e == gap_end
          IN IF gap_cached = Absent
             THEN uncached_ranges = <<<<s, e>>>>
             ELSE LET oldest == gap_cached.oldest_timestamp
                      newest == gap_cached.newest_timestamp
                      before == IF s < oldest THEN <<<<s, oldest - 1>>>> ELSE <<>>
                      after == IF e > newest THEN <<<<newest + 1, e>>>> ELSE <<>>
                  IN /\ uncached_ranges = before \o after
                     /\ (oldest <= s /\ e <= newest) => uncached_ranges = <<>>
    /\ GetUncachedRanges([symbol |-> None, oldest_timestamp |-> 100,
                          newest_timestamp |-> 200], 50, 250)
          = <<<<50, 99>>, <<201, 250>>>>
    /\ GetUncachedRanges([symbol |-> None, oldest_timestamp |-> 100,
                          newest_timestamp |-> 200], 120, 180) = <<>>

\* C1 witness: a request that sticks out of the cached range on both sides.
C1_Witness ==
    /\ gap_returned
    /\ gap_cached # Absent
    /\ Len(uncached_ranges) = 2
    /\ uncached_ranges[1][2] < uncached_ranges[2][1]

----------------------------------------------------------------------------
(* Properties of update_cache_ranges, checked under SpecRanges *)

\* The range update_cache_ranges(symbol, start_time, end_time) finds stored.
RangeOf(ranges, symbol) == CHOOSE r \in CachedRanges(ranges, symbol) : TRUE

\* C2: the cached range of a scope only widens: an update never makes
\* oldest greater or newest smaller and never removes the range; the first
\* update that finds trades creates the range with the observed bounds; an
\* update whose observed bounds lie inside the range leaves it unchanged;
\* (150, 300) on top of (100, 200) gives (100, 300), and (120, 180) on top
\* of that leaves (100, 300).
C2_StepOnlyWidens ==
    /\ \A symbol \in RangeScopes :
          LET before == RangeOf(cache_ranges_table, symbol)
              after == RangeOf(cache_ranges_table', symbol)
          IN /\ before # Absent =>
                   /\ after # Absent
                   /\ after.oldest_timestamp <= before.oldest_timestamp
                   /\ after.newest_timestamp >= before.newest_timestamp
             /\ \A start_time \in Times, end_time \in Times :
                   LET observed == ObservedBounds(trades_table, symbol,
                                                  start_time, end_time)
                   IN (/\ start_time <= end_time
                       /\ observed # Absent
                       /\ UpdateCacheRanges(symbol, start_time, end_time))
                      => /\ after # Absent
                         /\ before = Absent =>
                               /\ after.oldest_timestamp = ToInt(observed.oldest_timestamp)
                               /\ after.newest_timestamp = ToInt(observed.newest_timestamp)
                         /\ (/\ before # Absent
                             /\ before.oldest_timestamp <= ToInt(observed.oldest_timestamp)
                             /\ ToInt(observed.newest_timestamp) <= before.newest_timestamp)
                            => after = before
    /\ WidenedRange([symbol |-> None, oldest_timestamp |-> Str(100),
                     newest_timestamp |-> Str(200)], Str(150), Str(300))
          = [symbol |-> None, oldest_timestamp |-> Str(100),
             newest_timestamp |-> Str(300)]
    /\ WidenedRange([symbol |-> None, oldest_timestamp |-> Str(100),
                     newest_timestamp |-> Str(300)], Str(120), Str(180))
          = [symbol |-> None, oldest_timestamp |-> Str(100),
             newest_timestamp |-> Str(300)]

C2_OnlyWidens == [][C2_StepOnlyWidens]_vars

\* C2 witness: a range from 9 to 11, which no single update creates (the
\* first update over trades at 9 and 11 stores the text bounds "11" and "9"):
\* it was created and then widened.
C2_Witness ==
    /\ RangeOf(cache_ranges_table, "BTCUSDT") # Absent
    /\ RangeOf(cache_ranges_table, "BTCUSDT").oldest_timestamp = 9
    /\ RangeOf(cache_ranges_table, "BTCUSDT").newest_timestamp = 11

----------------------------------------------------------------------------
(* Properties of cache_trades, checked under SpecStore *)

\* Number of rows of the trades table with the key of `trade`.
RowsWithKey(table, trade) ==
    BagCardinality([r \in Existing(table, trade) |-> CopiesIn(r, table)])

\* C3: after any sequence of cache_trades calls the table holds exactly one
\* row per key (symbol, updatedTime) ever given to cache_trades and no other
\* row, and giving any batch a second time leaves the number of rows
\* unchanged, also when a key occurs twice in the batch.
C3_UpsertIdempotent ==
    /\ \A trade \in upserted : RowsWithKey(trades_table, trade) = 1
    /\ \A r \in BagToSet(trades_table) : r \in upserted
    /\ \A trades \in Batches :
          LET once == CacheTradesLoop(trades_table, trades)
              twice == CacheTradesLoop(once, trades)
          IN BagCardinality(twice) = BagCardinality(once)

\* C3 witness: a batch that holds one key twice was given when a row was
\* already stored, and added one row.
C3_Witness ==
    /\ Len(last_batch) = 2
    /\ last_batch[1] = last_batch[2]
    /\ rows_before >= 1
    /\ BagCardinality(trades_table) = rows_before + 1

----------------------------------------------------------------------------
(* Properties of the fill matcher, checked under SpecMatcher *)

\* The lot at the head of the `side` queue before the last fill.
PrevHead(side) == prev_positions[side][1]

\* C4: an Open-Long (Open-Short) fill of size q at price p with fee f1
\* followed by a Close-Long (Close-Short) fill of the same size at price x
\* with fee f2 produces exactly one trade with entry p, exit x, qty q,
\* fee f1 + f2 and PnL (x - p) * q - (f1 + f2) for a long,
\* (p - x) * q - (f1 + f2) for a short, and leaves both queues empty.
C4_OpenThenClose ==
    \A side \in Sides :
        (/\ n_fills = 2
         /\ Len(prev_positions[side]) = 1
         /\ prev_positions[Opposite(side)] = <<>>
         /\ PrevHead(side).trade.dir = OpenDir(side)
         /\ last_fill.dir = CloseDir(side)
         /\ last_fill.sz = PrevHead(side).trade.sz)
        => LET open == PrevHead(side).trade
               q == open.sz
               p == open.px
               x == last_fill.px
               fees == open.fee + last_fill.fee
           IN /\ ~aborted
              /\ Len(formatted_trades) = 1
              /\ formatted_trades[1].avgEntryPrice = p
              /\ formatted_trades[1].avgExitPrice = x
              /\ formatted_trades[1].qty = q
              /\ formatted_trades[1].fee = fees
              /\ formatted_trades[1].closedPnl =
                     (IF side = "long" THEN (x - p) * q ELSE (p - x) * q) - fees
              /\ open_positions = EmptyPositions

\* C4 witness: a short opened at one price and closed in full at another.
C4_Witness ==
    /\ n_fills = 2
    /\ last_fill.dir = "Close Short"
    /\ Len(prev_positions.short) = 1
    /\ prev_positions.long = <<>>
    /\ PrevHead("short").trade.dir = "Open Short"
    /\ last_fill.sz = PrevHead("short").trade.sz
    /\ last_fill.sz > 0
    /\ last_fill.px # PrevHead("short").price
    /\ Len(formatted_trades) = 1

\* C5: a close fill no larger than the single open lot of its direction
\* emits one trade with the lot's price as entry price and the fill's size
\* as qty; the lot stays at the head with its size reduced when the fill is
\* smaller than the lot, and the queue is empty when the fill equals it.
C5_PartialClose ==
    \A side \in Sides :
        (/\ last_fill.dir = CloseDir(side)
         /\ Len(prev_positions[side]) = 1
         /\ last_fill.sz <= PrevHead(side).size)
        => LET lot == PrevHead(side)
           IN /\ ~aborted
              /\ Len(emitted) = 1
              /\ emitted[1].avgEntryPrice = lot.trade.px
              /\ emitted[1].qty = last_fill.sz
              /\ open_positions[side] =
                     IF last_fill.sz < lot.size
                     THEN <<[lot EXCEPT !.size = lot.size - last_fill.sz]>>
                     ELSE <<>>
              /\ open_positions[Opposite(side)] = prev_positions[Opposite(side)]

\* C5 witness: the second close of a lot, equal to what the first left.
C5_Witness ==
    /\ n_fills = 3
    /\ last_fill.dir = "Close Long"
    /\ Len(prev_positions.long) = 1
    /\ PrevHead("long").size < PrevHead("long").trade.sz
    /\ last_fill.sz = PrevHead("long").size
    /\ Len(formatted_trades) = 2
    /\ formatted_trades[1].qty > 0
    /\ formatted_trades[1].avgEntryPrice = formatted_trades[2].avgEntryPrice
    /\ open_positions.long = <<>>

\* C6: a flip fill of size s, price x and fee f on an opposite queue holding
\* a single lot of size q < s at price p emits one trade (qty q, entry p,
\* exit x), empties that queue and appends one lot of size s - q at price x
\* in the new direction; the trade carries q/s of f on top of the lot's own
\* fee and the new lot (s - q)/s of f.
C6_FlipAllocation ==
    \A closing \in Sides :
        (/\ last_fill.dir = FlipDir(closing)
         /\ Len(prev_positions[closing]) = 1
         /\ 0 < PrevHead(closing).size
         /\ PrevHead(closing).size < last_fill.sz)
        => LET lot == PrevHead(closing)
               q == lot.size
               s == last_fill.sz
               new == open_positions[Opposite(closing)]
           IN /\ ~aborted
              /\ Len(emitted) = 1
              /\ emitted[1].qty = q
              /\ emitted[1].avgEntryPrice = lot.price
              /\ emitted[1].avgExitPrice = last_fill.px
              /\ emitted[1].position_type = closing
              /\ (emitted[1].fee - lot.fee) * s = last_fill.fee * q
              /\ open_positions[closing] = <<>>
              /\ Len(new) = Len(prev_positions[Opposite(closing)]) + 1
              /\ SubSeq(new, 1, Len(new) - 1) = prev_positions[Opposite(closing)]
              /\ new[Len(new)].size = s - q
              /\ new[Len(new)].price = last_fill.px
              /\ new[Len(new)].fee * s = last_fill.fee * (s - q)

\* C6 witness: a long lot flipped into a short by a larger fill.
C6_Witness ==
    /\ last_fill.dir = "Long > Short"
    /\ Len(prev_positions.long) = 1
    /\ prev_positions.short = <<>>
    /\ 0 < PrevHead("long").size
    /\ PrevHead("long").size < last_fill.sz
    /\ Len(emitted) = 1
    /\ Len(open_positions.short) = 1
    /\ open_positions.long = <<>>

\* C7: a close fill that finds the queue of its direction empty emits no
\* trade, leaves both queues as they were and does not stop the pass.
C7_UnmatchedClose ==
    \A side \in Sides :
        (last_fill.dir = CloseDir(side) /\ prev_positions[side] = <<>>)
        => /\ emitted = <<>>
           /\ open_positions = prev_positions
           /\ ~aborted
           /\ n_fills < MaxFills => ENABLED (OpenFill \/ CloseFill \/ FlipFill)

\* C7 witness: a Close-Long while only a short lot is open, in mid-pass.
C7_Witness ==
    /\ last_fill.dir = "Close Long"
    /\ prev_positions.long = <<>>
    /\ prev_positions.short # <<>>
    /\ emitted = <<>>
    /\ n_fills < MaxFills

----------------------------------------------------------------------------
(* Properties of the fill matcher, checked under SpecMalformed *)

\* C16: the matching pass is never aborted: whatever the fills, also fills
\* whose size, price or fee is missing and read as 0, no fill raises out of
\* _process_raw_trades.
C16_NeverAborts == ~aborted

\* C16: a close fill met a lot of size 0 and the pass went on.
C16_Witness ==
    /\ n_fills > 1
    /\ last_fill.dir = "Close Long"
    /\ prev_positions.long # <<>>
    /\ PrevHead("long").size = 0
    /\ ~aborted
    /\ open_positions.long = Tail(prev_positions.long)

----------------------------------------------------------------------------
(* Properties of the fetch, checked under Spec *)

C11_StepEmptyFetchChangesNothing ==
    (/\ n_fetches' = n_fetches + 1
     /\ \A i \in 1..Len(requests') : requests'[i].returned = 0)
    => /\ cache_ranges_table' = cache_ranges_table
       /\ trades_table' = trades_table

C11_EmptyFetchChangesNothing == [][C11_StepEmptyFetchChangesNothing]_vars

\* C11 witness: a fetch of the gaps around a cached range, over stored
\* trades, in which a request returned successfully with an empty list and
\* none returned a record; the range of the scope and the number of rows are
\* those found.
C11_Witness ==
    /\ n_fetches > 0
    /\ ~call.force_refresh
    /\ call.cached_range # Absent
    /\ requests # <<>>
    /\ \A i \in 1..Len(requests) : requests[i].returned = 0
    /\ \E i \in 1..Len(requests) : requests[i].ok
    /\ api_trades = <<>>
    /\ call.rows_before > 0
    /\ BagCardinality(trades_table) = call.rows_before
    /\ RangeOf(cache_ranges_table, call.symbol) = call.range_before

\* C12: the list a fetch returns is sorted by updatedTime read as a number,
\* newest first, whatever mix of cached and fetched trades it holds.
C12_SortedNewestFirst ==
    \A i \in 1..Len(all_trades) : \A j \in 1..Len(all_trades) :
        i < j => ToInt(all_trades[i].updatedTime) >= ToInt(all_trades[j].updatedTime)

\* C12 witness: a returned list that holds cached trades and fetched trades,
\* among them the timestamps 9 and 10, whose texts sort the other way.
C12_Witness ==
    /\ n_fetches > 0
    /\ call.cached_range # Absent
    /\ api_trades # <<>>
    /\ Len(all_trades) > Len(api_trades)
    /\ \E i \in 1..Len(all_trades) : all_trades[i].updatedTime = Str(9)
    /\ \E i \in 1..Len(all_trades) : all_trades[i].updatedTime = Str(10)

\* A log entry of the call make_api_request starts with: one per iteration
\* of the chunk loop.
IsChunkRequest(r) == r.endpoint # "fetch_closed_orders"

\* The bag of the elements of a list.
BagOfSeq(seq) ==
    [x \in {seq[i] : i \in 1..Len(seq)} |->
        Cardinality({i \in 1..Len(seq) : seq[i] = x})]

\* The bounds of the upstream calls of a log, in order.
Bounds(log) == [i \in 1..Len(log) |-> <<log[i].start_time, log[i].end_time>>]

\* C17: a fetch with force_refresh hands the whole period to the exchange
\* whatever the cached range of the scope: its chunk requests are those of
\* fetch_completed_trades(symbol, start_time, end_time); and it reads no
\* trade from the store: the list it returns is made of the trades the
\* exchange returned to this call, each as often as it was returned.
C17_ForceRefreshFetchesAll ==
    (n_fetches > 0 /\ call.force_refresh) =>
        /\ call.cached_range = Absent
        /\ Bounds(SelectSeq(requests, IsChunkRequest))
              = ChunkRequests(call.start_time, call.end_time)
        /\ BagOfSeq(all_trades) = BagOfSeq(api_trades)

\* C17 witness: a fetch with force_refresh for a scope that had a cached
\* range and stored trades inside the period; a request asked again for a
\* timestamp of that range and trades were returned.
C17_Witness ==
    /\ n_fetches > 0
    /\ call.force_refresh
    /\ call.range_before # Absent
    /\ call.rows_before > 0
    /\ \E i \in 1..Len(requests) :
          /\ requests[i].start_time <= call.range_before.newest_timestamp
          /\ call.range_before.oldest_timestamp <= requests[i].end_time
          /\ requests[i].returned > 0
    /\ all_trades # <<>>

\* cache_manager.get_cached_range(symbol, exchange_name) as the fetch of
\* `exchange` calls it: cache_ranges has no column for the exchange, the row
\* is selected by symbol alone.
RangeUsedFor(exchange, ranges, symbol) ==
    GetCachedRange(ranges, symbol, cache_available)

\* cache_manager.get_cached_trades(symbol, start_time, end_time,
\* exchange_name) likewise: trades has no column for the exchange.
TradesUsedFor(exchange, table, symbol, start_time, end_time) ==
    GetCachedTrades(table, symbol, start_time, end_time, cache_available)

\* A fetch on one exchange leaves alone what a request on the other exchange
\* for the same symbol uses: its cached range, hence its gaps, and the cached
\* trades it would be given.
C20_StepSourcesApart ==
    n_fetches' = n_fetches + 1 =>
        \A other \in Exchanges \ {call'.exchange} :
            call'.symbol \in ExchangeSymbols(other) =>
                /\ RangeUsedFor(other, cache_ranges_table', call'.symbol)
                      = RangeUsedFor(other, cache_ranges_table, call'.symbol)
                /\ \A start_time \in Times :
                      /\ \A cached_range \in RangeUsedFor(other, cache_ranges_table',
                                                          call'.symbol) :
                            \E before \in RangeUsedFor(other, cache_ranges_table,
                                                       call'.symbol) :
                                RangesToFetch(cached_range, start_time, Now)
                                  = RangesToFetch(before, start_time, Now)
                      /\ TradesUsedFor(other, trades_table', call'.symbol,
                                       start_time, Now)
                            = TradesUsedFor(other, trades_table, call'.symbol,
                                            start_time, Now)

----------------------------------------------------------------------------
(* Properties of POST /erase-db, checked under SpecErase *)

----------------------------------------------------------------------------
(* Properties of the unavailable cache, checked under SpecNoCache *)

\* The reads of the cache find nothing: get_cached_range is None for every
\* scope, get_cached_trades is [] and get_most_recent_fetch_time is None for
\* every filter; and a fetch made hands its whole period to the exchange and
\* returns what the exchange returned.
C18_ReadsFindNothing ==
    /\ \A symbol \in FetchScopes :
          /\ GetCachedRange(cache_ranges_table, symbol, cache_available) = {Absent}
          /\ \A start_time \in Times \cup {0}, end_time \in Times \cup {0} :
                /\ GetCachedTrades(trades_table, symbol, start_time, end_time,
                                   cache_available) = {<<>>}
                /\ GetMostRecentFetchTime(trades_table, symbol, start_time,
                                          end_time, cache_available) = Absent
    /\ n_fetches > 0 =>
          /\ call.cached_range = Absent
          /\ Bounds(SelectSeq(requests, IsChunkRequest))
                = ChunkRequests(call.start_time, call.end_time)
          /\ BagOfSeq(all_trades) = BagOfSeq(api_trades)

\* No operation writes: cache_trades, update_cache_ranges and the fetches
\* leave both tables as they are.
C18_StepWritesNothing ==
    /\ trades_table' = trades_table
    /\ cache_ranges_table' = cache_ranges_table

\* C18: when the cache is unavailable every cache operation is a no-op
\* (get_cached_range returns None, get_cached_trades returns [],
\* get_most_recent_fetch_time returns None, cache_trades and
\* update_cache_ranges change nothing and raise nothing) and every fetch
\* hands its whole period to the exchange.
C18_UnavailableCacheIsNoOp ==
    /\ [](~cache_available => C18_ReadsFindNothing)
    /\ [][~cache_available => C18_StepWritesNothing]_vars

\* C18 witness: the database holds rows and a BTCUSDT range from an earlier
\* run; a batch was given to cache_trades, and a fetch without force_refresh
\* for BTCUSDT asked the exchange again for what is stored and got trades.
C18_Witness ==
    /\ ~cache_available
    /\ RangeRows(cache_ranges_table, "BTCUSDT") # {}
    /\ Matching(trades_table, "BTCUSDT", 0, 0) # {}
    /\ last_batch # <<>>
    /\ n_fetches > 0
    /\ ~call.force_refresh
    /\ call.symbol = "BTCUSDT"
    /\ call.cached_range = Absent
    /\ \E i \in 1..Len(all_trades) : all_trades[i] \in BagToSet(trades_table)

----------------------------------------------------------------------------
(* Properties of fetch_completed_trades, checked under SpecChunks *)

\* The chunks the loop requested, in the order of the requests.
ChunkLog == SelectSeq(requests, IsChunkRequest)

ChunksNeeded(start_time, end_time) ==
    ((end_time - start_time) \div (ChunkSpan + 1)) + 1

\* The timestamps the chunk requests of the call asked for.
Requested ==
    {t \in call.start_time..call.end_time :
        \E i \in 1..Len(ChunkLog) :
            ChunkLog[i].start_time <= t /\ t <= ChunkLog[i].end_time}

\* C14: for every period [start_time, end_time] that max_requests chunks can
\* hold, the chunks requested cover exactly the period: every timestamp from
\* start_time (included) to end_time is in some chunk.
C14_ChunksCoverPeriod ==
    (/\ n_fetches > 0
     /\ ChunksNeeded(call.start_time, call.end_time) <= MaxRequests)
    => Requested = call.start_time..call.end_time

\* C14: a period of two full chunks, which the chunks requested do cover.
C14_Witness ==
    /\ n_fetches > 0
    /\ call.end_time - call.start_time = 2 * ChunkSpan + 1
    /\ Len(ChunkLog) = 2
    /\ Requested = call.start_time..call.end_time

\* The upstream calls made with the bounds of chunk c.
UpstreamCalls(c) ==
    {j \in 1..Len(requests) :
        requests[j].start_time = c.start_time /\ requests[j].end_time = c.end_time}

\* What the exchange holds for the chunks of a log whose request returned
\* successfully, in the order of the requests.
RECURSIVE OkRecords(_, _, _)
OkRecords(exchange, symbol, log) ==
    IF log = <<>> THEN <<>>
    ELSE (IF ~Head(log).ok THEN <<>>
          ELSE IF exchange = "bybit"
               THEN BybitResponse(symbol, Head(log).start_time, Head(log).end_time)
               ELSE HyperliquidResponse(symbol, Head(log).start_time,
                                        Head(log).end_time))
         \o OkRecords(exchange, symbol, Tail(log))

\* The loop goes on after a failed chunk: the chunks requested are those of
\* the period whatever the outcomes, and the call returns the records of the
\* chunks that succeeded (for hyperliquid, the trades their fills make).
C15_LoopGoesOn ==
    n_fetches > 0 =>
        /\ [i \in 1..Len(ChunkLog) |->
               <<ChunkLog[i].start_time, ChunkLog[i].end_time>>]
              = ChunkRequests(call.start_time, call.end_time)
        /\ api_trades =
              IF call.exchange = "bybit"
              THEN OkRecords("bybit", call.symbol, ChunkLog)
              ELSE ProcessRawTrades(OkRecords("hyperliquid", call.symbol,
                                              ChunkLog)).trades

\* C15: a chunk whose upstream request fails contributes an empty batch and
\* is not requested a second time (one upstream call was made with its
\* bounds, and no call with its bounds returned a record), and the loop goes
\* on: the later chunks are requested and the records of every successful
\* chunk are in the result.
C15_FailedChunkSkipped ==
    /\ n_fetches > 0 =>
          \A i \in 1..Len(ChunkLog) :
              ~ChunkLog[i].ok =>
                  /\ \A j \in UpstreamCalls(ChunkLog[i]) : requests[j].returned = 0
                  /\ Cardinality(UpstreamCalls(ChunkLog[i])) = 1
    /\ C15_LoopGoesOn

\* C15, the bybit half: the request of the newest chunk failed and was made
\* once, the next chunk was requested and its records are in the result.
C15_Witness ==
    /\ n_fetches > 0
    /\ call.exchange = "bybit"
    /\ Len(requests) = 2
    /\ ~requests[1].ok
    /\ requests[2].ok
    /\ requests[2].returned > 0
    /\ Len(api_trades) = requests[2].returned

----------------------------------------------------------------------------
(* Properties of the cached ranges, checked under SpecCoverage *)

\* The timestamps whose trades of a scope were asked of the exchange with
\* success: by the requests of the scope, and by those for all symbols.
CoveredFor(symbol) == covered[symbol] \cup covered[None]

----------------------------------------------------------------------------
(* Properties of concurrent transactions, checked under SpecConcurrent *)

\* No transaction is open.
Quiescent == \A c \in Connections : txn[c] = NoTxn

\* C21: whatever the interleaving of two concurrent cache_trades batches
\* that contain the same (symbol, updatedTime), once both have committed the
\* trades table holds exactly one row for that key.
C21_OneRowPerKey ==
    Quiescent =>
        \A row \in BagToSet(trades_table) : RowsWithKey(trades_table, row) = 1

\* C22: in every reachable state cache_ranges holds at most one row per
\* scope, concurrent update_cache_ranges calls on a scope without a row
\* included.
C22_OneRangePerScope ==
    \A symbol \in Scopes :
        BagCardinality(ScopeBag(cache_ranges_table, symbol)) <= 1

----------------------------------------------------------------------------
(* Properties of the stored range, checked under SpecRanges *)

\* C23: every row of cache_ranges has oldest_timestamp <= newest_timestamp
\* as numbers, whatever exit timestamps are stored, timestamps whose decimal
\* texts differ in length included.
C23_OldestBeforeNewest ==
    \A r \in BagToSet(cache_ranges_table) :
        ToInt(r.oldest_timestamp) <= ToInt(r.newest_timestamp)

----------------------------------------------------------------------------
(* The gaps and the request, checked under SpecGaps *)

\* The timestamps of the cached interval.
CachedTimestamps(cached_range) ==
    IF cached_range = Absent THEN {}
    ELSE cached_range.oldest_timestamp..cached_range.newest_timestamp

\* The gap holds no timestamp of the cached interval.
OutsideCached(gap, cached_range) ==
    (gap[1]..gap[2]) \cap CachedTimestamps(cached_range) = {}

\* The gap is a sub-interval of [s, e].
InsideRequest(gap, s, e) == s <= gap[1] /\ gap[1] <= gap[2] /\ gap[2] <= e

\* C24, as claimed: every gap returned for a request [s, e], s <= e, is a
\* sub-interval of [s, e] and holds no timestamp of the cached interval,
\* requests entirely before or after the cached interval included.
C24_GapsInsideRequest ==
    gap_returned =>
        \A i \in 1..Len(uncached_ranges) :
            /\ InsideRequest(uncached_ranges[i], gap_start, gap_end)
            /\ OutsideCached(uncached_ranges[i], gap_cached)

\* C24, amended: every gap holds no timestamp of the cached interval and is
\* a non-empty interval that starts at s or ends at e; it is a sub-interval
\* of [s, e] when the request reaches the cached interval (e >= oldest - 1
\* for the gap before it, s <= newest + 1 for the gap after it).  A request
\* entirely before the cached interval gets (s, oldest - 1), which runs past
\* e, and one entirely after it gets (newest + 1, e), which starts before s.
C24_GapsOutsideCached ==
    gap_returned =>
        \A i \in 1..Len(uncached_ranges) :
            LET gap == uncached_ranges[i]
            IN /\ OutsideCached(gap, gap_cached)
               /\ gap[1] <= gap[2]
               /\ gap[1] = gap_start \/ gap[2] = gap_end
               /\ gap_cached # Absent =>
                     /\ (gap[1] = gap_start /\ gap_end >= gap_cached.oldest_timestamp - 1)
                            => InsideRequest(gap, gap_start, gap_end)
                     /\ (gap[2] = gap_end /\ gap_start <= gap_cached.newest_timestamp + 1)
                            => InsideRequest(gap, gap_start, gap_end)
                     /\ (gap_end < gap_cached.oldest_timestamp - 1
                         /\ gap_cached.oldest_timestamp <= gap_cached.newest_timestamp)
                            => gap = <<gap_start, gap_cached.oldest_timestamp - 1>>
                     /\ (gap_start > gap_cached.newest_timestamp + 1
                         /\ gap_cached.oldest_timestamp <= gap_cached.newest_timestamp)
                            => gap = <<gap_cached.newest_timestamp + 1, gap_end>>

\* C24 witness: a request entirely before the cached interval, not touching
\* it, got its gap.
C24_Witness ==
    /\ gap_returned
    /\ gap_cached # Absent
    /\ gap_cached.oldest_timestamp <= gap_cached.newest_timestamp
    /\ gap_end < gap_cached.oldest_timestamp - 1
    /\ Len(uncached_ranges) = 1
    /\ uncached_ranges[1][2] > gap_end

----------------------------------------------------------------------------
(* The two queues of a symbol, checked under SpecMatcher *)

\* At most one of the two queues holds lots.
OneSided(positions) == positions.long = <<>> \/ positions.short = <<>>

\* The fills a netting account produces in the state `positions`: an open
\* fill finds the opposite queue empty, a flip finds the queue of the
\* direction it flips to empty.
Netting(positions, f) ==
    CASE f.dir = "Open Long"    -> positions.short = <<>>
      [] f.dir = "Open Short"   -> positions.long = <<>>
      [] f.dir = "Short > Long" -> positions.long = <<>>
      [] f.dir = "Long > Short" -> positions.short = <<>>
      [] OTHER -> TRUE

\* C25, as claimed: after each fill at most one of the two queues is
\* non-empty, for every sequence of fills over the six direction tags.
C25_OneQueueNonEmpty == OneSided(open_positions)

\* C25, amended: a fill of a netting account that finds at most one queue
\* non-empty leaves at most one queue non-empty; the matcher itself keeps
\* the queues independent, and an open fill arriving while the opposite
\* queue holds lots leaves both non-empty.
C25_NettingKeepsOneQueue ==
    /\ (last_fill # NoFill /\ ~aborted /\ OneSided(prev_positions)
        /\ Netting(prev_positions, last_fill))
          => OneSided(open_positions)
    /\ (last_fill # NoFill /\ last_fill.dir \in {"Open Long", "Open Short"}
        /\ ~Netting(prev_positions, last_fill))
          => ~OneSided(open_positions)

\* C25 witness: a flip larger than the long lots it closes has left a short
\* lot and no long lot.
C25_Witness ==
    /\ last_fill # NoFill
    /\ last_fill.dir = "Long > Short"
    /\ prev_positions.long # <<>>
    /\ prev_positions.short = <<>>
    /\ open_positions.long = <<>>
    /\ open_positions.short # <<>>
    /\ Len(emitted) >= 1

----------------------------------------------------------------------------
(* from_cache of the response, checked under Spec *)

----------------------------------------------------------------------------
(* Stored rows, checked under SpecImmutable *)

\* C27: a stored row is immutable: no cache_trades, update_cache_ranges or
\* fetch changes a field of a row of the trades table or removes it, also
\* when the batch carries the key of a stored row with another payload.
C27_StepRowsStay ==
    \A r \in BagToSet(trades_table) :
        CopiesIn(r, trades_table') >= CopiesIn(r, trades_table)

C27_RowsImmutable == [][C27_StepRowsStay]_vars

\* C27 witness: the last batch carried the key of a stored row with another
\* PnL, and the row is still the stored one.
C27_Witness ==
    \E i \in 1..Len(last_batch) :
        /\ Existing(trades_table, last_batch[i]) # {}
        /\ TradeRow(last_batch[i]) \notin Existing(trades_table, last_batch[i])

----------------------------------------------------------------------------
(* The rows a query returns, checked under SpecQuery *)

\* The number a text of digits stands for, found among the timestamps.
NumberOf(text) == CHOOSE t \in 0..MaxTime : Str(t) = text

\* C28: get_cached_trades(symbol, start, end) returns exactly the stored
\* rows that satisfy every filter that was supplied, the timestamps compared
\* as numbers, whatever the number of digits of the stored texts.
C28_QueryReturnsMatches ==
    query.returned =>
        /\ \A r \in BagToSet(trades_table) :
              LET wanted ==
                      /\ query.symbol # None => r.symbol = query.symbol
                      /\ query.start_time # 0 =>
                             NumberOf(r.updatedTime) >= query.start_time
                      /\ query.end_time # 0 =>
                             NumberOf(r.updatedTime) <= query.end_time
              IN Cardinality({i \in 1..Len(query.trades) : query.trades[i] = r})
                     = IF wanted THEN CopiesIn(r, trades_table) ELSE 0
        /\ \A i \in 1..Len(query.trades) : query.trades[i] \in BagToSet(trades_table)

\* C28 witness: the table holds '9' and '10', and a query from 10 on got the
\* row of '10' and not that of '9', which is the greater text.
C28_Witness ==
    /\ query.returned
    /\ query.start_time = 10
    /\ \E r \in BagToSet(trades_table) : r.updatedTime = Str(9)
    /\ \E i \in 1..Len(query.trades) : query.trades[i].updatedTime = Str(10)
    /\ \A i \in 1..Len(query.trades) : query.trades[i].updatedTime # Str(9)

----------------------------------------------------------------------------
(* The ROI of a trade, checked under SpecRoi *)

\* C29: for every trade roi = pnl / (entryPrice * |qty|) * 100, and 0 when
\* entryPrice * |qty| is 0; computing it never raises on a zero denominator.
C29_RoiFormula ==
    processed_trade.done =>
        LET denominator == processed_trade.avgEntryPrice * Abs(processed_trade.qty)
            roi == processed_trade.roi
        IN /\ ~roi.raised
           /\ roi.den # 0
           /\ IF denominator = 0 THEN roi.num = 0
              ELSE roi.num * denominator = processed_trade.closedPnl * 100 * roi.den

\* C29 witness: a trade with a PnL, an entry price and a zero quantity got
\* roi 0.
C29_Witness ==
    /\ processed_trade.done
    /\ processed_trade.closedPnl # 0
    /\ processed_trade.avgEntryPrice # 0
    /\ processed_trade.qty = 0
    /\ processed_trade.roi = ZeroRoi

----------------------------------------------------------------------------
(* The walk of a flip over several lots, checked under SpecMatcher *)

\* The total size of the first n lots of a queue.
RECURSIVE SizeOfFirst(_, _)
SizeOfFirst(queue, n) ==
    IF n = 0 THEN 0 ELSE SizeOfFirst(queue, n - 1) + queue[n].size

\* The total qty of a list of trades.
RECURSIVE TotalQty(_)
TotalQty(trades) ==
    IF trades = <<>> THEN 0 ELSE Head(trades).qty + TotalQty(Tail(trades))

\* C30: a flip fill of size s walks the queue it closes oldest lot first
\* and emits one trade per lot it touches, priced at that lot's entry price;
\* the qty of the trades plus the size of the lot it opens (0 if none) is s,
\* and it opens a lot only if the queue it closed is empty after the walk.
C30_FlipWalksFifo ==
    \A closing \in Sides :
        (last_fill.dir = FlipDir(closing) /\ ~aborted) =>
            LET queue == prev_positions[closing]
                s == last_fill.sz
                touched == {i \in 1..Len(queue) : SizeOfFirst(queue, i - 1) < s}
                before == prev_positions[Opposite(closing)]
                after == open_positions[Opposite(closing)]
                opened == IF Len(after) > Len(before) THEN after[Len(after)].size
                          ELSE 0
            IN /\ Len(emitted) = Cardinality(touched)
               /\ \A i \in 1..Len(emitted) :
                     /\ i \in touched
                     /\ emitted[i].avgEntryPrice = queue[i].price
                     /\ emitted[i].entryTime = Str(queue[i].timestamp)
                     /\ emitted[i].avgExitPrice = last_fill.px
                     /\ emitted[i].qty = Min(queue[i].size,
                                             s - SizeOfFirst(queue, i - 1))
               /\ TotalQty(emitted) + opened = s
               /\ Len(after) \in {Len(before), Len(before) + 1}
               /\ SubSeq(after, 1, Len(before)) = before
               /\ opened > 0 => open_positions[closing] = <<>>
               /\ Len(after) > Len(before) => opened > 0

\* C30 witness: a flip closed two lots opened at different prices, oldest
\* first.
C30_Witness ==
    /\ last_fill.dir = "Long > Short"
    /\ ~aborted
    /\ Len(prev_positions.long) = 2
    /\ prev_positions.long[1].price # prev_positions.long[2].price
    /\ Len(emitted) = 2
    /\ emitted[1].avgEntryPrice = prev_positions.long[1].price
    /\ emitted[2].avgEntryPrice = prev_positions.long[2].price
    /\ open_positions.long = <<>>

----------------------------------------------------------------------------
(* A simple close larger than the oldest lot, checked under SpecMatcher *)

\* The queue left when `size` is taken from a queue oldest lot first: the
\* lots it covers are gone, the lot it ends in is reduced.
TakenFifo(queue, size) ==
    LET gone == Cardinality({i \in 1..Len(queue) : SizeOfFirst(queue, i) <= size})
    IN IF gone = Len(queue) THEN <<>>
       ELSE <<[queue[gone + 1] EXCEPT !.size = SizeOfFirst(queue, gone + 1) - size]>>
            \o SubSeq(queue, gone + 2, Len(queue))

\* C31: a Close-Long / Close-Short fill larger than the oldest lot emits
\* exactly one trade, priced at the oldest lot's entry price, and removes or
\* reduces the further lots oldest first until its size is used up or the
\* queue is empty; the further lots get no trade.
C31_CloseBeyondOldestLot ==
    \A side \in Sides :
        (/\ last_fill.dir = CloseDir(side)
         /\ prev_positions[side] # <<>>
         /\ last_fill.sz > PrevHead(side).size)
        => /\ ~aborted
           /\ Len(emitted) = 1
           /\ emitted[1].avgEntryPrice = PrevHead(side).price
           /\ emitted[1].entryTime = Str(PrevHead(side).timestamp)
           /\ emitted[1].avgExitPrice = last_fill.px
           /\ emitted[1].qty = last_fill.sz
           /\ open_positions[side] = TakenFifo(prev_positions[side], last_fill.sz)
           /\ open_positions[Opposite(side)] = prev_positions[Opposite(side)]

\* C31 witness: a close of two lots opened at different prices gave one
\* trade, at the price of the older lot.
C31_Witness ==
    /\ last_fill.dir = "Close Long"
    /\ Len(prev_positions.long) = 2
    /\ prev_positions.long[1].price # prev_positions.long[2].price
    /\ last_fill.sz > prev_positions.long[1].size
    /\ Len(emitted) = 1
    /\ emitted[1].avgEntryPrice = prev_positions.long[1].price
    /\ Len(open_positions.long) < 2

----------------------------------------------------------------------------
(* Lot sizes in the ledger, checked under SpecMatcher *)

\* The size a close of `size` takes from lot i of a queue, oldest lot first.
ConsumedFrom(queue, i, size) ==
    Min(queue[i].size, Max(0, size - SizeOfFirst(queue, i - 1)))

\* The lots of a queue, by the time they were opened.
LotTimes(queue) == {queue[i].timestamp : i \in 1..Len(queue)}

\* C32: with positive fill sizes every lot held in a queue after a fill has
\* size > 0; a close or flip that takes less than a lot's size leaves the lot
\* in its queue with the size reduced by what was taken, and a lot leaves its
\* queue exactly when what was taken from it reaches its size.
C32_LotsStayPositive ==
    /\ \A side \in Sides : \A i \in 1..Len(open_positions[side]) :
           open_positions[side][i].size > 0
    /\ \A side \in Sides :
           (last_fill.dir \in {CloseDir(side), FlipDir(side)} /\ ~aborted) =>
               LET before == prev_positions[side]
                   after == open_positions[side]
               IN \A i \in 1..Len(before) :
                      LET consumed == ConsumedFrom(before, i, last_fill.sz)
                      IN /\ (before[i].timestamp \in LotTimes(after))
                               <=> (consumed < before[i].size)
                         /\ \A j \in 1..Len(after) :
                                after[j].timestamp = before[i].timestamp =>
                                    after[j].size = before[i].size - consumed

\* C32 witness: a partial close reduced a lot that stayed in its queue, and
\* an earlier lot was removed by the same fill.
C32_Witness ==
    /\ last_fill.dir = "Close Long"
    /\ Len(prev_positions.long) = 2
    /\ Len(open_positions.long) = 1
    /\ open_positions.long[1].timestamp = prev_positions.long[2].timestamp
    /\ open_positions.long[1].size = prev_positions.long[2].size - 1
    /\ open_positions.long[1].size > 0

----------------------------------------------------------------------------
(* Concurrent extensions of one range, checked under SpecConcurrent *)

\* Range row `outer` covers range row `inner` of the same scope.
Covers(outer, inner) ==
    /\ outer.symbol = inner.symbol
    /\ ToInt(outer.oldest_timestamp) <= ToInt(inner.oldest_timestamp)
    /\ ToInt(outer.newest_timestamp) >= ToInt(inner.newest_timestamp)

\* C33: under any interleaving of two concurrent update_cache_ranges calls
\* on one scope the committed range never shrinks: every committed range
\* row, the widening committed by the other call included, is covered by a
\* row of its scope after every step.
C33_StepKeepsRange ==
    \A before \in BagToSet(cache_ranges_table) :
        \E after \in BagToSet(cache_ranges_table') : Covers(after, before)

C33_WideningNeverLost == [][C33_StepKeepsRange]_vars

----------------------------------------------------------------------------
(* Quantities over a whole matching pass, checked under SpecTally *)

\* The trades of a list that closed lots of one direction.
TradesOf(trades, side) == SelectSeq(trades, LAMBDA t : t.position_type = side)

\* The total size of the lots opened in one direction at timestamps 1..n.
RECURSIVE OpenedSize(_, _, _)
OpenedSize(lots, side, n) ==
    IF n = 0 THEN 0
    ELSE OpenedSize(lots, side, n - 1)
             + (IF lots[n].side = side THEN lots[n].size ELSE 0)

\* C34: for each direction the qty of all emitted trades of the direction
\* is at most the total size of the lots opened in it, and the qty of a
\* trade emitted by a close fill is at most the total size its queue held
\* just before the fill.
C34_ClosedWithinOpened ==
    /\ \A side \in Sides :
          TotalQty(TradesOf(formatted_trades, side))
              <= OpenedSize(tally.lots, side, MaxFills)
    /\ \A side \in Sides :
          last_fill.dir = CloseDir(side) =>
              \A i \in 1..Len(emitted) :
                  emitted[i].qty <= SizeOfFirst(prev_positions[side],
                                                Len(prev_positions[side]))

----------------------------------------------------------------------------
(* Fees over a whole matching pass, checked under SpecTally *)

\* The total of the fee fields of a list of trades.
RECURSIVE TotalFee(_)
TotalFee(trades) ==
    IF trades = <<>> THEN 0 ELSE Head(trades).fee + TotalFee(Tail(trades))

\* The fee that belongs to what is left of the lots of a queue: the share
\* size left / size opened of each lot's entry fee.
RECURSIVE UnconsumedFee(_, _)
UnconsumedFee(queue, lots) ==
    IF queue = <<>> THEN 0
    ELSE (lots[Head(queue).timestamp].fee * Head(queue).size)
             \div lots[Head(queue).timestamp].size
         + UnconsumedFee(Tail(queue), lots)

\* The part of a trade's fee that comes from the fill that closed it.
ExitShare(t) ==
    IF t.raw_data.close.dir \in {"Close Long", "Close Short"}
    THEN t.raw_data.close.fee
    ELSE (t.raw_data.close.fee * t.qty) \div t.raw_data.close.sz

\* The part of a trade's fee that comes from the lot it closed.
EntryShare(t) == t.fee - ExitShare(t)

\* C35: fees are conserved over a pass: the fees of all emitted trades plus
\* the fees that belong to what is left of the open lots equal the fees of
\* the fills that were matched, and no lot has its entry fee counted in full
\* in two trades.
C35_FeesConserved ==
    /\ TotalFee(formatted_trades)
           + UnconsumedFee(open_positions.long, tally.lots)
           + UnconsumedFee(open_positions.short, tally.lots)
       = tally.fees
    /\ \A i, j \in 1..Len(formatted_trades) :
          (/\ i < j
           /\ formatted_trades[i].entryTime = formatted_trades[j].entryTime)
          => ~(/\ EntryShare(formatted_trades[i])
                     = tally.lots[ToInt(formatted_trades[i].entryTime)].fee
               /\ EntryShare(formatted_trades[j])
                     = tally.lots[ToInt(formatted_trades[j].entryTime)].fee)

----------------------------------------------------------------------------
(* The matcher's output in the store, checked under SpecPersist *)

\* C36: after the trades the matcher emitted are upserted into an empty
\* store, the store holds one row per emitted trade, the several trades of
\* one flip fill (same symbol, same exit timestamp) included.
C36_EveryTradePersisted ==
    last_batch # <<>> =>
        /\ BagCardinality(trades_table) = Len(last_batch)
        /\ \A i \in 1..Len(last_batch) : BagIn(TradeRow(last_batch[i]), trades_table)

----------------------------------------------------------------------------
(* Duplicates in the returned list, checked under SpecRefetch *)

----------------------------------------------------------------------------
(* The range after a fetch and the rows the fetch stored, checked under Spec *)

\* Timestamp text `updatedTime` lies inside a range as get_cached_range
\* returns it.
Inside(updatedTime, range) ==
    /\ range # Absent
    /\ range.oldest_timestamp <= ToInt(updatedTime)
    /\ ToInt(updatedTime) <= range.newest_timestamp

\* C38: when a fetch for a scope has completed with the cache available,
\* every row the fetch stored has its updatedTime inside the range the
\* scope has after the fetch, so that a later request does not ask upstream
\* again for a timestamp whose trade is stored.
C38_StepStoredInsideRange ==
    (n_fetches' > n_fetches /\ cache_available /\ ~call'.raised) =>
        \A row \in BagToSet(trades_table') \ BagToSet(trades_table) :
            Inside(row.updatedTime, RangeOf(cache_ranges_table', call'.symbol))

----------------------------------------------------------------------------
(* One pass and two passes over a period, checked under SpecPasses *)

\* The trades of a list, as a set.
TradeSet(trades) == {trades[i] : i \in 1..Len(trades)}

\* The trades one fetch_completed_trades over the whole period gives on an
\* empty cache, every chunk answered.
SinglePass(symbol, start_time, end_time) ==
    HyperliquidFetchCompletedTrades(
        EmptyBag, EmptyBag, symbol, start_time, end_time,
        AllAnswered(<<<<start_time, end_time>>>>), TRUE).all_trades

----------------------------------------------------------------------------
(* A batch that raises, checked under SpecAtomic *)

\* Handling a trade of the batch raises: a trade lacks 'updatedTime' or its
\* updatedTime is no integer.
BatchRaises(trades) ==
    \E i \in 1..Len(trades) :
        \/ "updatedTime" \notin DOMAIN trades[i]
        \/ \E c \in 1..Len(trades[i].updatedTime) : trades[i].updatedTime[c] > 9

\* C40: a cache_trades batch is atomic on error: when handling a trade of
\* the batch raises, no row of the batch is stored and the rows stored
\* before are unchanged; and no error reaches the caller.
C40_StepBatchAtomic ==
    /\ BatchRaises(last_batch') =>
          /\ trades_table' = trades_table
          /\ cache_call'.exception # "none"
    /\ ~cache_call'.propagated

C40_BatchAtomic == [][C40_StepBatchAtomic]_vars

\* C40 witness: a batch whose first trade was new and well formed and whose
\* second trade raised left the stored rows as they were, without the first
\* trade.
C40_Witness ==
    /\ Len(last_batch) = 2
    /\ ~BatchRaises(<<last_batch[1]>>)
    /\ BatchRaises(<<last_batch[2]>>)
    /\ cache_call.exception # "none"
    /\ ~cache_call.propagated
    /\ rows_before > 0
    /\ BagCardinality(trades_table) = rows_before
    /\ ~BagIn(last_batch[1], trades_table)

====
